---- MODULE Spec2Model ----
(***************************************************************************)
(* ghf (github-finds): the cache store, the cache key builder, the         *)
(* response failure classifier and the page loop of the paginated commands.*)
(*                                                                         *)
(* Strings whose content matters (cache keys, provider messages, the       *)
(* classifier's output) are sequences of one-character strings, so that    *)
(* joining, lower-casing and substring search are computed, not assumed.   *)
(* Cached payloads are opaque and are written as their JSON text.          *)
(***************************************************************************)
EXTENDS Integers, Sequences, FiniteSets, TLC

VARIABLES
    store,      \* cache.ts `store`: key -> [data, ts], the entries of the backing Conf store
    now,        \* Date.now(), in milliseconds
    ret,        \* the cache call made by the last step, what it returned and the
                \* keys the store held when it was made
    parts,      \* cacheKey: the argument list of one call
    key,        \* cacheKey: the key built from `parts`, once built
    queries,    \* two command invocations, each with its arguments and options
    keys,       \* the cache keys the two invocations build, once built
    err,        \* friendlyError: the value caught from a failed request
    msg,        \* friendlyError: the message returned for `err`, once returned
    inv,        \* page loop: the command invoked, with its arguments and options
    pc,         \* page loop: where the command's action handler stands
    page,       \* page loop: `page`
    perPage,    \* page loop: `perPage`
    loaded,     \* page loop: the page of this iteration (`repos`, `prs`, `issues`,
                \* `result`), null until it is loaded
    trace,      \* page loop: what the handler has done so far, in order: cache
                \* calls, requests to the provider, console output, prompts
    remote,     \* page loop: the result set the provider holds for the command
    earlier,    \* page loop: the trace of the previous invocation of the same
                \* command line, empty when there was none
    procs,      \* racing invocations: each process's position inside cacheGet /
                \* cacheSet and the entry it has read
    written     \* racing invocations: every entry some process has written

cacheVars == <<store, now, ret>>
keyVars == <<parts, key, queries, keys>>
errVars == <<err, msg>>
pageVars == <<inv, pc, page, perPage, loaded, trace, remote, earlier>>
raceVars == <<procs, written>>
vars == <<store, now, ret, parts, key, queries, keys, err, msg,
          inv, pc, page, perPage, loaded, trace, remote, earlier, procs, written>>

(***************************************************************************)
(* Bounds of the model                                                     *)
(***************************************************************************)
\* number of 1 ms clock steps taken beyond a multiple of the TTL
MaxSub == 1
\* number of TTL-sized clock jumps
MaxEpochs == 1

(***************************************************************************)
(* src/src/utils/cache.ts                                                  *)
(***************************************************************************)
TTL_MS == 5 * 60 * 1000

\* keys and payloads the callers use; a payload is the JSON text of the value
Keys == {"key1", "a"}
Payloads == {"[]", "0", "\"\"", "false", "[1,2,3]"}

\* JS null, which cacheGet returns for a miss
Miss == "null"

\* the store method that throws during a call, if any
Faults == {"none", "get", "set", "delete", "clear"}

\* Conf.set / Conf.delete / Conf.clear on the entries
StoreSet(s, k, e) == [x \in DOMAIN s \cup {k} |-> IF x = k THEN e ELSE s[x]]
StoreDelete(s, k) == [x \in DOMAIN s \ {k} |-> s[x]]
StoreClear == [x \in {} |-> Miss]

\* variant: an expired entry is reported as a miss but left in the store
cacheGet_keepsExpired(s, t, k, f) ==
    IF f = "get" THEN [val |-> Miss, store |-> s, branch |-> "error"]
    ELSE IF k \notin DOMAIN s THEN [val |-> Miss, store |-> s, branch |-> "absent"]
    ELSE IF t - s[k].ts > TTL_MS THEN [val |-> Miss, store |-> s, branch |-> "expired"]
    ELSE [val |-> s[k].data, store |-> s, branch |-> "hit"]

\* variant: the truthiness test is made on the payload instead of the entry
cacheGet_falsyPayload(s, t, k, f) ==
    IF f = "get" THEN [val |-> Miss, store |-> s, branch |-> "error"]
    ELSE IF k \notin DOMAIN s \/ s[k].data \in {"0", "\"\"", "false", "null"}
    THEN [val |-> Miss, store |-> s, branch |-> "absent"]
    ELSE IF t - s[k].ts > TTL_MS
    THEN IF f = "delete"
         THEN [val |-> Miss, store |-> s, branch |-> "error"]
         ELSE [val |-> Miss, store |-> StoreDelete(s, k), branch |-> "expired"]
    ELSE [val |-> s[k].data, store |-> s, branch |-> "hit"]

\* variant: an entry expires once its age reaches TTL_MS
cacheGet_expiresAtTtl(s, t, k, f) ==
    IF f = "get" THEN [val |-> Miss, store |-> s, branch |-> "error"]
    ELSE IF k \notin DOMAIN s THEN [val |-> Miss, store |-> s, branch |-> "absent"]
    ELSE IF t - s[k].ts >= TTL_MS
    THEN IF f = "delete"
         THEN [val |-> Miss, store |-> s, branch |-> "error"]
         ELSE [val |-> Miss, store |-> StoreDelete(s, k), branch |-> "expired"]
    ELSE [val |-> s[k].data, store |-> s, branch |-> "hit"]

\* variant: a hit writes the entry back with the time of the read
cacheGet_refreshesOnHit(s, t, k, f) ==
    IF f = "get"
    THEN [val |-> Miss, store |-> s, branch |-> "error"]
    ELSE IF k \notin DOMAIN s
    THEN [val |-> Miss, store |-> s, branch |-> "absent"]
    ELSE IF t - s[k].ts > TTL_MS
    THEN IF f = "delete"
         THEN [val |-> Miss, store |-> s, branch |-> "error"]
         ELSE [val |-> Miss, store |-> StoreDelete(s, k), branch |-> "expired"]
    ELSE [val |-> s[k].data, store |-> StoreSet(s, k, [data |-> s[k].data, ts |-> t]),
          branch |-> "hit"]

\* cacheGet(key) at time t; `f` names the store method that throws.
\* Result: the returned value, the store afterwards and the branch taken.
cacheGet(s, t, k, f) ==
    IF f = "get"
    THEN [val |-> Miss, store |-> s, branch |-> "error"]
    ELSE IF k \notin DOMAIN s
    THEN [val |-> Miss, store |-> s, branch |-> "absent"]
    ELSE IF t - s[k].ts > TTL_MS
    THEN IF f = "delete"
         THEN [val |-> Miss, store |-> s, branch |-> "error"]
         ELSE [val |-> Miss, store |-> StoreDelete(s, k), branch |-> "expired"]
    ELSE [val |-> s[k].data, store |-> s, branch |-> "hit"]

\* variant: the write is reported as done but nothing is stored
cacheSet_neverStores(s, t, k, v, f) ==
    IF f = "set"
    THEN [store |-> s, branch |-> "error", threw |-> FALSE]
    ELSE [store |-> s, branch |-> "stored", threw |-> FALSE]

\* cacheSet(key, data) at time t: a throwing store.set is swallowed
cacheSet(s, t, k, v, f) ==
    IF f = "set"
    THEN [store |-> s, branch |-> "error", threw |-> FALSE]
    ELSE [store |-> StoreSet(s, k, [data |-> v, ts |-> t]), branch |-> "stored", threw |-> FALSE]

\* variant: clear drops only the first key it finds
cacheClear_dropsOne(s, f) ==
    IF f = "clear"
    THEN [store |-> s, branch |-> "error", threw |-> TRUE]
    ELSE [store |-> IF DOMAIN s = {} THEN s ELSE StoreDelete(s, CHOOSE k \in DOMAIN s : TRUE),
          branch |-> "cleared", threw |-> FALSE]

\* cacheClear(): store.clear() is called outside any try block
cacheClear(s, f) ==
    IF f = "clear"
    THEN [store |-> s, branch |-> "error", threw |-> TRUE]
    ELSE [store |-> StoreClear, branch |-> "cleared", threw |-> FALSE]

\* no call has been made by the last step
NoCall == [op |-> "none", key |-> "", data |-> Miss, val |-> Miss,
           branch |-> "none", threw |-> FALSE, pre |-> {}]

CacheGet(k, f) ==
    LET r == cacheGet(store, now, k, f) IN
    /\ store' = r.store
    /\ ret' = [op |-> "cacheGet", key |-> k, data |-> Miss, val |-> r.val,
               branch |-> r.branch, threw |-> FALSE, pre |-> DOMAIN store]
    /\ UNCHANGED <<now, keyVars, errVars, pageVars, raceVars>>

CacheSet(k, v, f) ==
    LET r == cacheSet(store, now, k, v, f) IN
    /\ store' = r.store
    /\ ret' = [op |-> "cacheSet", key |-> k, data |-> v, val |-> Miss,
               branch |-> r.branch, threw |-> r.threw, pre |-> DOMAIN store]
    /\ UNCHANGED <<now, keyVars, errVars, pageVars, raceVars>>

CacheClear(f) ==
    LET r == cacheClear(store, f) IN
    /\ store' = r.store
    /\ ret' = [op |-> "cacheClear", key |-> "", data |-> Miss, val |-> Miss,
               branch |-> r.branch, threw |-> r.threw, pre |-> DOMAIN store]
    /\ UNCHANGED <<now, keyVars, errVars, pageVars, raceVars>>

\* the clock advances by 1 ms or by a whole TTL
Tick(d) ==
    /\ \/ d = 1 /\ now % TTL_MS < MaxSub
       \/ d = TTL_MS /\ now \div TTL_MS < MaxEpochs
    /\ now' = now + d
    /\ ret' = NoCall
    /\ UNCHANGED <<store, keyVars, errVars, pageVars, raceVars>>

\* the cache of a fresh installation, before any call
CacheIdle ==
    /\ store = StoreClear
    /\ now = 0
    /\ ret = NoCall

\* no key is being built
KeyIdle ==
    /\ parts = <<>>
    /\ key = [done |-> FALSE, val |-> <<>>]
    /\ queries = <<>>
    /\ keys = [done |-> FALSE, a |-> <<>>, b |-> <<>>]

\* no failure is being classified
ErrIdle ==
    /\ err = [isError |-> FALSE]
    /\ msg = [done |-> FALSE, val |-> <<>>]

\* no paginated command is running
PageIdle ==
    /\ inv = [cmd |-> "none"]
    /\ pc = "idle"
    /\ page = [t |-> "undefined", v |-> <<>>]
    /\ perPage = [t |-> "undefined", v |-> <<>>]
    /\ loaded = [n |-> 0, total |-> [t |-> "undefined", v |-> <<>>], req |-> [endpoint |-> "none"]]
    /\ trace = <<>>
    /\ remote = [items |-> 0, prs |-> {}]
    /\ earlier = <<>>

\* no invocations are racing on the store
RaceIdle ==
    /\ procs = <<>>
    /\ written = {}

InitCache == CacheIdle /\ KeyIdle /\ ErrIdle /\ PageIdle /\ RaceIdle

NextCache ==
    \/ \E k \in Keys, f \in {"none", "get", "delete"} : CacheGet(k, f)
    \/ \E k \in Keys, v \in Payloads, f \in {"none", "set"} : CacheSet(k, v, f)
    \/ \E f \in {"none", "clear"} : CacheClear(f)
    \/ \E d \in {1, TTL_MS} : Tick(d)

SpecCache == InitCache /\ [][NextCache]_vars

(***************************************************************************)
(* Cache store: properties                                                 *)
(***************************************************************************)
\* a key that is absent is reported as a miss and comes back only by a cacheSet of it
AbsentUntilSet(k) ==
    /\ (k \notin DOMAIN store /\ ret'.op = "cacheGet" /\ ret'.key = k)
          => (ret'.val = Miss /\ k \notin DOMAIN store')
    /\ (k \notin DOMAIN store /\ k \in DOMAIN store')
          => (ret'.op = "cacheSet" /\ ret'.key = k)

\* C1: a cacheGet of an entry written more than TTL_MS ago returns a miss and,
\* the store not failing, deletes the entry; from then on the key is absent and
\* every cacheGet of it is a miss until a cacheSet writes it again.
C1_ExpiryRemovesEntry ==
    [][\A k \in Keys :
          /\ (/\ ret'.op = "cacheGet" /\ ret'.key = k
              /\ k \in DOMAIN store /\ now - store[k].ts > TTL_MS)
                => /\ ret'.val = Miss
                   /\ ret'.branch # "error" => k \notin DOMAIN store'
          /\ AbsentUntilSet(k)]_vars

C1_Witness ==
    /\ ret.op = "cacheGet" /\ ret.branch = "expired" /\ ret.val = Miss
    /\ ret.key \in ret.pre /\ ret.key \notin DOMAIN store

\* C2: a cacheGet(k) that directly follows a cacheSet(k, v), the store not
\* failing in either, returns v itself and not a miss, also for the payloads
\* that are falsy in JavaScript.
C2_RoundTrip ==
    [][(/\ ret.op = "cacheSet" /\ ret.branch = "stored"
        /\ ret'.op = "cacheGet" /\ ret'.key = ret.key /\ ret'.branch # "error")
          => (ret'.val = ret.data /\ ret'.val # Miss /\ ret'.branch = "hit")]_vars

C2_Witness ==
    /\ ret.op = "cacheGet" /\ ret.branch = "hit"
    /\ ret.val \in {"[]", "0", "\"\"", "false"}
    /\ store[ret.key] = [data |-> ret.val, ts |-> now]

\* C3: a cacheClear that returns leaves no entry, whatever the entries' age, and
\* every key stays a miss until it is set again.
C3_ClearRemovesAll ==
    [][/\ (ret'.op = "cacheClear" /\ ~ret'.threw) => DOMAIN store' = {}
       /\ \A k \in Keys : AbsentUntilSet(k)]_vars

C3_Witness ==
    /\ ret.op = "cacheClear" /\ ~ret.threw
    /\ ret.pre = Keys /\ DOMAIN store = {}

\* C4: no cache operation raises to its caller, whichever store method fails.
C4_NoCacheOpThrows == ret.threw = FALSE

(***************************************************************************)
(* Strings and scalar values                                               *)
(***************************************************************************)
Digits == <<"0", "1", "2", "3", "4", "5", "6", "7", "8", "9">>

\* String(n) of a non-negative integer: its decimal digits
RECURSIVE NumberToString(_)
NumberToString(n) ==
    IF n < 10 THEN <<Digits[n + 1]>>
    ELSE NumberToString(n \div 10) \o <<Digits[(n % 10) + 1]>>

\* String.prototype.includes
Includes(s, sub) ==
    \E i \in 0..(Len(s) - Len(sub)) : SubSeq(s, i + 1, i + Len(sub)) = sub

\* Array.prototype.join
RECURSIVE Join(_, _)
Join(ss, sep) ==
    IF Len(ss) = 0 THEN <<>>
    ELSE IF Len(ss) = 1 THEN ss[1]
    ELSE ss[1] \o sep \o Join(Tail(ss), sep)

\* the values a cacheKey part may be: string | number | boolean | undefined | null
Undefined == [t |-> "undefined", v |-> <<>>]
Null == [t |-> "null", v |-> <<>>]
Str(s) == [t |-> "string", v |-> s]
Num(n) == [t |-> "number", v |-> n]
Bool(b) == [t |-> "boolean", v |-> b]
\* the number NaN
NaN == [t |-> "NaN", v |-> 0]

\* "true"
StrTrue ==
    <<"t", "r", "u", "e">>
\* "false"
StrFalse ==
    <<"f", "a", "l", "s", "e">>
\* "null"
StrNull ==
    <<"n", "u", "l", "l">>
\* "undefined"
StrUndefined ==
    <<"u", "n", "d", "e", "f", "i", "n", "e", "d">>
\* String(p)
JsString(p) ==
    CASE p.t = "string" -> p.v
      [] p.t = "number" -> (IF p.v < 0 THEN <<"-">> \o NumberToString(-p.v)
                            ELSE NumberToString(p.v))
      [] p.t = "NaN" -> <<"N", "a", "N">>
      [] p.t = "boolean" -> (IF p.v THEN StrTrue ELSE StrFalse)
      [] p.t = "null" -> StrNull
      [] p.t = "undefined" -> StrUndefined

(***************************************************************************)
(* src/src/utils/cache.ts: cacheKey                                        *)
(***************************************************************************)
\* "::"
KeySep == <<":", ":">>

\* p !== undefined && p !== null
IsPresent(p) == p.t # "undefined" /\ p.t # "null"

\* variant: only undefined parts are dropped
cacheKey_keepsNull(ps) ==
    LET Kept(p) == p.t # "undefined"
        kept == SelectSeq(ps, Kept)
    IN  Join([i \in 1..Len(kept) |-> JsString(kept[i])], KeySep)

\* parts.filter(present).map(String).join("::")
cacheKey(ps) ==
    LET kept == SelectSeq(ps, IsPresent)
    IN  Join([i \in 1..Len(kept) |-> JsString(kept[i])], KeySep)

\* number of parts in one argument list
MaxParts == 3

\* part values: strings with and without colons, a number, a boolean, the absent values
PartValues ==
    { Str(<<>>), Str(<<"a">>), Str(<<":">>), Str(<<"a", ":">>), Str(<<":", "a">>),
      Str(<<"2">>), Num(2), Bool(TRUE), Null, Undefined }

PartLists == UNION { [1..n -> PartValues] : n \in 0..MaxParts }

BuildKey ==
    /\ ~key.done
    /\ key' = [done |-> TRUE, val |-> cacheKey(parts)]
    /\ UNCHANGED <<cacheVars, errVars, pageVars, raceVars, parts, queries, keys>>

InitKey ==
    /\ CacheIdle
    /\ ErrIdle
    /\ PageIdle
    /\ RaceIdle
    /\ parts \in PartLists
    /\ key = [done |-> FALSE, val |-> <<>>]
    /\ queries = <<>>
    /\ keys = [done |-> FALSE, a |-> <<>>, b |-> <<>>]

NextKey == BuildKey

SpecKey == InitKey /\ [][NextKey]_vars

(***************************************************************************)
(* Cache key builder: properties                                           *)
(***************************************************************************)
\* the String() forms of the non-absent parts, in order
PresentStrings(ps) ==
    LET kept == SelectSeq(ps, IsPresent)
    IN  [i \in 1..Len(kept) |-> JsString(kept[i])]

\* the key is the "::"-join of the String() of the non-absent parts, in order:
\* an absent part adds nothing, the first present part adds its String(), and
\* every later one adds "::" and its String()
JoinsPresentParts ==
    /\ parts = <<>> => key.val = <<>>
    /\ \A p \in PartValues :
          cacheKey(Append(parts, p)) =
             IF ~IsPresent(p) THEN key.val
             ELSE IF \A i \in 1..Len(parts) : ~IsPresent(parts[i]) THEN JsString(p)
             ELSE key.val \o KeySep \o JsString(p)

\* no non-absent part contains the separator
NoSeparator(ps) ==
    \A i \in 1..Len(ps) : IsPresent(ps[i]) => ~Includes(JsString(ps[i]), KeySep)

\* at least one part is present, and no present part contains the separator or
\* begins or ends with a colon
ColonSafe(ps) ==
    /\ \E i \in 1..Len(ps) : IsPresent(ps[i])
    /\ \A i \in 1..Len(ps) : IsPresent(ps[i]) =>
          LET str == JsString(ps[i]) IN
          /\ ~Includes(str, KeySep)
          /\ str # <<>> => (Head(str) # ":" /\ str[Len(str)] # ":")

\* the key and the String() forms of every argument list with a present part
\* and no "::" in a part, and of every colon-safe one
NoSeparatorKeys ==
    { <<cacheKey(qs), PresentStrings(qs)>> :
        qs \in {ps \in PartLists : NoSeparator(ps) /\ PresentStrings(ps) # <<>>} }
ColonSafeKeys ==
    { <<cacheKey(qs), PresentStrings(qs)>> : qs \in {ps \in PartLists : ColonSafe(ps)} }

\* C5 as stated, lists being compared by the String() of their parts: the key
\* joins the present parts, and two lists with a present part, whose present
\* parts do not contain "::", have different keys whenever they differ.
C5_KeyInjectiveWithoutSeparator ==
    key.done =>
       /\ JoinsPresentParts
       /\ (NoSeparator(parts) /\ PresentStrings(parts) # <<>>) =>
             \A other \in NoSeparatorKeys :
                other[2] # PresentStrings(parts) => other[1] # key.val

\* C5, amended: the key joins the present parts, and two lists with at least
\* one present part, whose present parts neither contain "::" nor begin or end
\* with ":", have different keys whenever their sequences of String() forms
\* differ.
C5_KeyInjectiveColonSafe ==
    key.done =>
       /\ JoinsPresentParts
       /\ ColonSafe(parts) =>
             \A other \in ColonSafeKeys :
                other[2] # PresentStrings(parts) => other[1] # key.val

\* two parts in an order that matters, with an absent part dropped between them
C5_Witness ==
    /\ key.done
    /\ parts = <<Str(<<"a">>), Undefined, Num(2)>>
    /\ key.val = <<"a", ":", ":", "2">>
    /\ ColonSafe(parts)
    /\ <<(<<"2", ":", ":", "a">>), (<<(<<"2">>), (<<"a">>)>>)>> \in ColonSafeKeys

(***************************************************************************)
(* The cache keys of the paginated commands                                *)
(***************************************************************************)
\* "repo.list"
TagRepoList ==
    <<"r", "e", "p", "o", ".", "l", "i", "s", "t">>
\* "pr.list"
TagPrList ==
    <<"p", "r", ".", "l", "i", "s", "t">>
\* "issue.list"
TagIssueList ==
    <<"i", "s", "s", "u", "e", ".", "l", "i", "s", "t">>
\* "search.repos"
TagSearchRepos ==
    <<"s", "e", "a", "r", "c", "h", ".", "r", "e", "p", "o", "s">>
\* "__me__"
StrMe ==
    <<"_", "_", "m", "e", "_", "_">>
\* "all"
StrAll ==
    <<"a", "l", "l">>
\* "open"
StrOpen ==
    <<"o", "p", "e", "n">>
\* "closed"
StrClosed ==
    <<"c", "l", "o", "s", "e", "d">>
\* "updated"
StrUpdated ==
    <<"u", "p", "d", "a", "t", "e", "d">>
\* "stars"
StrStars ==
    <<"s", "t", "a", "r", "s">>
\* " language:"
StrLanguagePrefix ==
    <<" ", "l", "a", "n", "g", "u", "a", "g", "e", ":">>
\* " stars:"
StrStarsPrefix ==
    <<" ", "s", "t", "a", "r", "s", ":">>
\* "o"
StrOwner ==
    <<"o">>
\* "r"
StrRepo ==
    <<"r">>
\* "x"
StrX ==
    <<"x">>
\* pages and effective page sizes of the invocations
MaxPage == 2
DEFAULT_PER_PAGE == 30
Pages == 1..MaxPage
PageSizes == {2, DEFAULT_PER_PAGE}

\* an invocation: the command, its arguments and its options (absent: Undefined)
NoOptions ==
    [cmd |-> "none", username |-> Undefined, owner |-> Undefined, repo |-> Undefined,
     query |-> Undefined, language |-> Undefined, stars |-> Undefined,
     type |-> Undefined, sort |-> Undefined, state |-> Undefined,
     label |-> Undefined, assignee |-> Undefined, base |-> Undefined,
     page |-> Undefined, perPage |-> Undefined]

RepoListQueries ==
    { [NoOptions EXCEPT !.cmd = "repo list", !.username = u, !.type = Str(StrAll),
                        !.sort = Str(StrUpdated), !.page = Num(pg), !.perPage = Num(n)] :
        u \in {Undefined, Str(StrOwner)}, pg \in Pages, n \in PageSizes }

PrListQueries ==
    { [NoOptions EXCEPT !.cmd = "pr list", !.owner = Str(StrOwner), !.repo = Str(StrRepo),
                        !.state = Str(st), !.base = b,
                        !.page = Num(pg), !.perPage = Num(n)] :
        st \in {StrOpen, StrClosed}, b \in {Undefined, Str(StrX)},
        pg \in Pages, n \in PageSizes }

IssueListQueries ==
    { [NoOptions EXCEPT !.cmd = "issue list", !.owner = Str(StrOwner), !.repo = Str(StrRepo),
                        !.state = Str(st), !.label = l, !.assignee = a,
                        !.page = Num(pg), !.perPage = Num(n)] :
        st \in {StrOpen, StrClosed}, l \in {Undefined, Str(StrX)},
        a \in {Undefined, Str(StrX)}, pg \in Pages, n \in PageSizes }

SearchReposQueries ==
    { [NoOptions EXCEPT !.cmd = "search repos", !.query = Str(StrX), !.language = l,
                        !.sort = Str(StrStars), !.page = Num(pg), !.perPage = Num(n)] :
        l \in {Undefined, Str(StrOwner)}, pg \in Pages, n \in PageSizes }

Queries == RepoListQueries \cup PrListQueries \cup IssueListQueries \cup SearchReposQueries

\* username ?? "__me__"
OrMe(u) == IF IsPresent(u) THEN u ELSE Str(StrMe)

\* pr list: opts.state === "all" ? "all" : opts.state === "closed" ? "closed" : "open"
PrState(st) ==
    IF st = Str(StrAll) THEN Str(StrAll)
    ELSE IF st = Str(StrClosed) THEN Str(StrClosed)
    ELSE Str(StrOpen)

\* search repos: q = query + " language:<lang>" + " stars:<n>" for the options given
SearchQ(i) ==
    Str(i.query.v
        \o (IF IsPresent(i.language) THEN StrLanguagePrefix \o i.language.v ELSE <<>>)
        \o (IF IsPresent(i.stars) THEN StrStarsPrefix \o i.stars.v ELSE <<>>))

RepoListKey(i) ==
    cacheKey(<<Str(TagRepoList), OrMe(i.username), i.type, i.sort, i.page, i.perPage>>)

PrListKey(i) ==
    cacheKey(<<Str(TagPrList), i.owner, i.repo, PrState(i.state), i.base, i.page, i.perPage>>)

IssueListKey(i) ==
    cacheKey(<<Str(TagIssueList), i.owner, i.repo, i.state, i.label, i.assignee,
               i.page, i.perPage>>)

SearchReposKey(i) ==
    cacheKey(<<Str(TagSearchRepos), SearchQ(i), i.sort, i.page, i.perPage>>)

\* the key an invocation looks its page up under
QueryKey(i) ==
    CASE i.cmd = "repo list" -> RepoListKey(i)
      [] i.cmd = "pr list" -> PrListKey(i)
      [] i.cmd = "issue list" -> IssueListKey(i)
      [] i.cmd = "search repos" -> SearchReposKey(i)

\* the request an invocation sends to the provider on a miss: endpoint and parameters
NoParams ==
    [endpoint |-> "none", username |-> Undefined, owner |-> Undefined, repo |-> Undefined,
     q |-> Undefined, type |-> Undefined, sort |-> Undefined, state |-> Undefined,
     labels |-> Undefined, assignee |-> Undefined, base |-> Undefined,
     per_page |-> Undefined, page |-> Undefined]

Request(i) ==
    CASE i.cmd = "repo list" ->
           [NoParams EXCEPT !.endpoint = IF IsPresent(i.username) THEN "repos.listForUser"
                                         ELSE "repos.listForAuthenticatedUser",
                            !.username = i.username, !.type = i.type, !.sort = i.sort,
                            !.per_page = i.perPage, !.page = i.page]
      [] i.cmd = "pr list" ->
           [NoParams EXCEPT !.endpoint = "pulls.list", !.owner = i.owner, !.repo = i.repo,
                            !.state = PrState(i.state), !.base = i.base,
                            !.per_page = i.perPage, !.page = i.page]
      [] i.cmd = "issue list" ->
           [NoParams EXCEPT !.endpoint = "issues.listForRepo", !.owner = i.owner,
                            !.repo = i.repo, !.state = i.state, !.labels = i.label,
                            !.assignee = i.assignee, !.per_page = i.perPage, !.page = i.page]
      [] i.cmd = "search repos" ->
           [NoParams EXCEPT !.endpoint = "search.repos", !.q = SearchQ(i), !.sort = i.sort,
                            !.per_page = i.perPage, !.page = i.page]

BuildQueryKeys ==
    /\ ~keys.done
    /\ keys' = [done |-> TRUE, a |-> QueryKey(queries[1]), b |-> QueryKey(queries[2])]
    /\ UNCHANGED <<cacheVars, errVars, pageVars, raceVars, parts, key, queries>>

InitQuery ==
    /\ CacheIdle
    /\ ErrIdle
    /\ PageIdle
    /\ RaceIdle
    /\ parts = <<>>
    /\ key = [done |-> FALSE, val |-> <<>>]
    /\ queries \in Queries \X Queries
    /\ keys = [done |-> FALSE, a |-> <<>>, b |-> <<>>]

NextQuery == BuildQueryKeys

SpecQuery == InitQuery /\ [][NextQuery]_vars

\* C6: two invocations that ask the provider for different things (another
\* command, another filter value, another filter, another page or page size)
\* never build the same cache key.
C6_DistinctQueriesDistinctKeys ==
    keys.done =>
       (Request(queries[1]) # Request(queries[2]) => keys.a # keys.b)

(***************************************************************************)
(* src/src/api/client.ts: friendlyError                                    *)
(***************************************************************************)
UpperCase ==
    <<"A", "B", "C", "D", "E", "F", "G", "H", "I", "J", "K", "L", "M",
      "N", "O", "P", "Q", "R", "S", "T", "U", "V", "W", "X", "Y", "Z">>
LowerCase ==
    <<"a", "b", "c", "d", "e", "f", "g", "h", "i", "j", "k", "l", "m",
      "n", "o", "p", "q", "r", "s", "t", "u", "v", "w", "x", "y", "z">>

\* String.prototype.toLowerCase
ToLowerCase(s) ==
    [i \in 1..Len(s) |->
        IF \E j \in 1..26 : UpperCase[j] = s[i]
        THEN LowerCase[CHOOSE j \in 1..26 : UpperCase[j] = s[i]]
        ELSE s[i]]

\* the fixed text of the messages
\* "Authentication failed (em dash) run (backtick)ghf auth login(backtick) to refresh your token."
Txt401 ==
    <<"A", "u", "t", "h", "e", "n", "t", "i", "c", "a", "t", "i", "o", "n", " ", "f", "a", "i",
      "l", "e", "d", " ", "EMDASH", " ", "r", "u", "n", " ", "BACKTICK", "g", "h", "f", " ",
      "a", "u", "t", "h", " ", "l", "o", "g", "i", "n", "BACKTICK", " ", "t", "o", " ", "r",
      "e", "f", "r", "e", "s", "h", " ", "y", "o", "u", "r", " ", "t", "o", "k", "e", "n", ".">>
\* "API rate limit exceeded."
TxtRateLimitExceeded ==
    <<"A", "P", "I", " ", "r", "a", "t", "e", " ", "l", "i", "m", "i", "t", " ", "e", "x", "c",
      "e", "e", "d", "e", "d", ".">>
\* " Try again in "
TxtTryAgainIn ==
    <<" ", "T", "r", "y", " ", "a", "g", "a", "i", "n", " ", "i", "n", " ">>
\* "s."
TxtSecondsDot ==
    <<"s", ".">>
\* " Wait a few minutes."
TxtWaitFewMinutes ==
    <<" ", "W", "a", "i", "t", " ", "a", " ", "f", "e", "w", " ", "m", "i", "n", "u", "t", "e",
      "s", ".">>
\* " Authenticate with a token for higher limits."
TxtAuthenticateHigher ==
    <<" ", "A", "u", "t", "h", "e", "n", "t", "i", "c", "a", "t", "e", " ", "w", "i", "t", "h",
      " ", "a", " ", "t", "o", "k", "e", "n", " ", "f", "o", "r", " ", "h", "i", "g", "h", "e",
      "r", " ", "l", "i", "m", "i", "t", "s", ".">>
\* "Forbidden (403) (em dash) your token may be missing required scopes."
TxtForbidden ==
    <<"F", "o", "r", "b", "i", "d", "d", "e", "n", " ", "(", "4", "0", "3", ")", " ", "EMDASH",
      " ", "y", "o", "u", "r", " ", "t", "o", "k", "e", "n", " ", "m", "a", "y", " ", "b", "e",
      " ", "m", "i", "s", "s", "i", "n", "g", " ", "r", "e", "q", "u", "i", "r", "e", "d", " ",
      "s", "c", "o", "p", "e", "s", ".">>
\* " GitHub says: "
TxtGitHubSays ==
    <<" ", "G", "i", "t", "H", "u", "b", " ", "s", "a", "y", "s", ":", " ">>
\* "Not found (404) (em dash) check the owner/repo name is correct."
Txt404 ==
    <<"N", "o", "t", " ", "f", "o", "u", "n", "d", " ", "(", "4", "0", "4", ")", " ", "EMDASH",
      " ", "c", "h", "e", "c", "k", " ", "t", "h", "e", " ", "o", "w", "n", "e", "r", "/", "r",
      "e", "p", "o", " ", "n", "a", "m", "e", " ", "i", "s", " ", "c", "o", "r", "r", "e", "c",
      "t", ".">>
\* "Validation error (422)"
TxtValidation ==
    <<"V", "a", "l", "i", "d", "a", "t", "i", "o", "n", " ", "e", "r", "r", "o", "r", " ", "(",
      "4", "2", "2", ")">>
\* ": "
TxtColonSpace ==
    <<":", " ">>
\* " (em dash) check your input."
TxtCheckInput ==
    <<" ", "EMDASH", " ", "c", "h", "e", "c", "k", " ", "y", "o", "u", "r", " ", "i", "n", "p",
      "u", "t", ".">>
\* "Secondary rate limit hit (429)."
TxtSecondary ==
    <<"S", "e", "c", "o", "n", "d", "a", "r", "y", " ", "r", "a", "t", "e", " ", "l", "i", "m",
      "i", "t", " ", "h", "i", "t", " ", "(", "4", "2", "9", ")", ".">>
\* " Retry after "
TxtRetryAfter ==
    <<" ", "R", "e", "t", "r", "y", " ", "a", "f", "t", "e", "r", " ">>
\* "Content blocked (451) (em dash) this resource is unavailable in your region."
Txt451 ==
    <<"C", "o", "n", "t", "e", "n", "t", " ", "b", "l", "o", "c", "k", "e", "d", " ", "(", "4",
      "5", "1", ")", " ", "EMDASH", " ", "t", "h", "i", "s", " ", "r", "e", "s", "o", "u", "r",
      "c", "e", " ", "i", "s", " ", "u", "n", "a", "v", "a", "i", "l", "a", "b", "l", "e", " ",
      "i", "n", " ", "y", "o", "u", "r", " ", "r", "e", "g", "i", "o", "n", ".">>
\* "rate limit"
TxtRateLimitNeedle ==
    <<"r", "a", "t", "e", " ", "l", "i", "m", "i", "t">>
\* provider messages and failure descriptions used as inputs
\* "API rate limit exceeded"
InApiRateLimit ==
    <<"A", "P", "I", " ", "r", "a", "t", "e", " ", "l", "i", "m", "i", "t", " ", "e", "x", "c",
      "e", "e", "d", "e", "d">>
\* "API Rate Limit Exceeded"
InUpperRateLimit ==
    <<"A", "P", "I", " ", "R", "a", "t", "e", " ", "L", "i", "m", "i", "t", " ", "E", "x", "c",
      "e", "e", "d", "e", "d">>
\* "Validation Failed"
InValidationFailed ==
    <<"V", "a", "l", "i", "d", "a", "t", "i", "o", "n", " ", "F", "a", "i", "l", "e", "d">>
\* "weird failure"
InWeirdFailure ==
    <<"w", "e", "i", "r", "d", " ", "f", "a", "i", "l", "u", "r", "e">>
\* "network timeout"
InNetworkTimeout ==
    <<"n", "e", "t", "w", "o", "r", "k", " ", "t", "i", "m", "e", "o", "u", "t">>
\* "Bad credentials"
InBadCredentials ==
    <<"B", "a", "d", " ", "c", "r", "e", "d", "e", "n", "t", "i", "a", "l", "s">>
\* "something went wrong"
InSomethingWrong ==
    <<"s", "o", "m", "e", "t", "h", "i", "n", "g", " ", "w", "e", "n", "t", " ", "w", "r", "o",
      "n", "g">>
\* variant: the rate-limit test is made without lower-casing the message
MentionsRateLimit_caseSensitive(apiMsg) == Includes(apiMsg, TxtRateLimitNeedle)

\* apiMsg.toLowerCase().includes("rate limit")
MentionsRateLimit(apiMsg) == Includes(ToLowerCase(apiMsg), TxtRateLimitNeedle)

\* a string option is truthy when it is present and not empty
Truthy(p) == IsPresent(p) /\ p.v # <<>>

\* variant: the retry-after header is not used
PrimaryWait_generic(retryAfter) == TxtWaitFewMinutes

\* 403 rate limit: retryAfter ? ` Try again in ${retryAfter}s.` : " Wait a few minutes."
PrimaryWait(retryAfter) ==
    IF Truthy(retryAfter) THEN TxtTryAgainIn \o retryAfter.v \o TxtSecondsDot
    ELSE TxtWaitFewMinutes

\* variant: the provider message is not appended
ValidationDetail_generic(apiMsg) == TxtCheckInput

\* 422: apiMsg ? `: ${apiMsg}` : " (em dash) check your input."
ValidationDetail(apiMsg) ==
    IF apiMsg # <<>> THEN TxtColonSpace \o apiMsg ELSE TxtCheckInput

\* 429: retryAfter ? ` Retry after ${retryAfter}s.` : ""
SecondaryWait(retryAfter) ==
    IF Truthy(retryAfter) THEN TxtRetryAfter \o retryAfter.v \o TxtSecondsDot ELSE <<>>

\* variant: the failure's own description is preferred to the provider message
Fallback_messageFirst(apiMsg, message) == IF message # <<>> THEN message ELSE apiMsg

\* apiMsg || e.message
Fallback(apiMsg, message) == IF apiMsg # <<>> THEN apiMsg ELSE message

\* friendlyError(err): e.isError tells whether err is an Error; an Error carries
\* message, status?, response?.data?.message and response?.headers?.["retry-after"]
friendlyError(e) ==
    IF ~e.isError THEN JsString(e.value)
    ELSE
      LET status == e.status
          apiMsg == IF IsPresent(e.apiMsg) THEN e.apiMsg.v ELSE <<>>
          retryAfter == e.retryAfter
      IN  IF status = Num(401) THEN Txt401
          ELSE IF status = Num(403) THEN
                 IF MentionsRateLimit(apiMsg)
                 THEN TxtRateLimitExceeded \o PrimaryWait(retryAfter) \o TxtAuthenticateHigher
                 ELSE TxtForbidden
                        \o (IF apiMsg # <<>> THEN TxtGitHubSays \o apiMsg ELSE <<>>)
          ELSE IF status = Num(404) THEN Txt404
          ELSE IF status = Num(422) THEN TxtValidation \o ValidationDetail(apiMsg)
          ELSE IF status = Num(429) THEN TxtSecondary \o SecondaryWait(retryAfter)
          ELSE IF status = Num(451) THEN Txt451
          ELSE Fallback(apiMsg, e.message)

\* the failures classified: every status with every provider message and retry-after
Statuses ==
    {Undefined, Num(401), Num(403), Num(404), Num(422), Num(429), Num(451), Num(999)}
ApiMsgs ==
    {Undefined, Str(<<>>), Str(InApiRateLimit), Str(InUpperRateLimit),
     Str(InValidationFailed), Str(InWeirdFailure)}
RetryAfters == {Undefined, Str(<<>>), Str(<<"1", "2", "0">>)}
ErrorMessages == {InNetworkTimeout, InBadCredentials}

Errors ==
    { [isError |-> TRUE, value |-> Undefined, message |-> m, status |-> st,
       apiMsg |-> am, retryAfter |-> ra] :
        m \in ErrorMessages, st \in Statuses, am \in ApiMsgs, ra \in RetryAfters }

\* thrown values that are not Errors
NonErrors ==
    { [isError |-> FALSE, value |-> v, message |-> <<>>, status |-> Undefined,
       apiMsg |-> Undefined, retryAfter |-> Undefined] :
        v \in {Str(InSomethingWrong), Num(42)} }

Classify ==
    /\ ~msg.done
    /\ msg' = [done |-> TRUE, val |-> friendlyError(err)]
    /\ UNCHANGED <<cacheVars, keyVars, pageVars, raceVars, err>>

InitErr ==
    /\ CacheIdle
    /\ KeyIdle
    /\ PageIdle
    /\ RaceIdle
    /\ err \in Errors \cup NonErrors
    /\ msg = [done |-> FALSE, val |-> <<>>]

NextErr == Classify

SpecErr == InitErr /\ [][NextErr]_vars

(***************************************************************************)
(* Response failure classifier: properties                                 *)
(***************************************************************************)
\* "ghf auth login"
TxtGhfAuthLogin ==
    <<"g", "h", "f", " ", "a", "u", "t", "h", " ", "l", "o", "g", "i", "n">>
\* "not found"
TxtNotFoundLower ==
    <<"n", "o", "t", " ", "f", "o", "u", "n", "d">>
\* "Not found"
TxtNotFoundCapital ==
    <<"N", "o", "t", " ", "f", "o", "u", "n", "d">>
StartsWith(s, prefix) ==
    Len(s) >= Len(prefix) /\ SubSeq(s, 1, Len(prefix)) = prefix

\* the provider message of a failure, "" when it has none
ProviderMessage(e) == IF IsPresent(e.apiMsg) THEN e.apiMsg.v ELSE <<>>

\* the provider message mentions rate limiting, in any letter case
SaysRateLimit(e) == Includes(ToLowerCase(ProviderMessage(e)), TxtRateLimitNeedle)

\* the category a message belongs to, read off its fixed text
CategoryOf(m) ==
    CASE m = Txt401 -> "Unauthenticated"
      [] StartsWith(m, TxtRateLimitExceeded) -> "RateLimitedPrimary"
      [] StartsWith(m, TxtForbidden) -> "ForbiddenScopes"
      [] m = Txt404 -> "NotFound"
      [] StartsWith(m, TxtValidation) -> "Validation"
      [] StartsWith(m, TxtSecondary) -> "RateLimitedSecondary"
      [] m = Txt451 -> "Blocked"
      [] OTHER -> "Unknown"

\* the category the precedence table gives a failure
ExpectedCategory(e) ==
    IF e.status = Num(401) THEN "Unauthenticated"
    ELSE IF e.status = Num(403) /\ SaysRateLimit(e) THEN "RateLimitedPrimary"
    ELSE IF e.status = Num(403) THEN "ForbiddenScopes"
    ELSE IF e.status = Num(404) THEN "NotFound"
    ELSE IF e.status = Num(422) THEN "Validation"
    ELSE IF e.status = Num(429) THEN "RateLimitedSecondary"
    ELSE IF e.status = Num(451) THEN "Blocked"
    ELSE "Unknown"

\* the message of a classified Error follows the precedence table, the 401
\* message names `ghf auth login`, and a 403 that mentions rate limiting is
\* not Forbidden-Scopes
FollowsPrecedence ==
    /\ CategoryOf(msg.val) = ExpectedCategory(err)
    /\ err.status = Num(401) => Includes(msg.val, TxtGhfAuthLogin)
    /\ (err.status = Num(403) /\ SaysRateLimit(err))
          => CategoryOf(msg.val) # "ForbiddenScopes"

\* C7 as stated: the precedence holds and the 404 message contains "not found".
C7_PrecedenceAndNotFoundLowerCase ==
    (msg.done /\ err.isError) =>
       /\ FollowsPrecedence
       /\ err.status = Num(404) => Includes(msg.val, TxtNotFoundLower)

\* C7, amended: the precedence holds and the 404 message contains "Not found",
\* which is "not found" once letter case is ignored.
C7_PrecedenceAndNotFound ==
    (msg.done /\ err.isError) =>
       /\ FollowsPrecedence
       /\ err.status = Num(404) =>
             /\ Includes(msg.val, TxtNotFoundCapital)
             /\ Includes(ToLowerCase(msg.val), TxtNotFoundLower)

\* a 403 whose message says "Rate Limit" in capitals is classified rate-limited
C7_Witness ==
    /\ msg.done /\ err.isError
    /\ err.status = Num(403) /\ err.apiMsg = Str(InUpperRateLimit)
    /\ CategoryOf(msg.val) = "RateLimitedPrimary"

\* C8: the message for a 403 that mentions rate limiting has a wait hint: the
\* retry-after value when there is one, the generic phrase when there is none.
C8_PrimaryRateLimitWaitHint ==
    (msg.done /\ err.isError /\ err.status = Num(403) /\ SaysRateLimit(err)) =>
       /\ IsPresent(err.retryAfter) => Includes(msg.val, err.retryAfter.v)
       /\ Truthy(err.retryAfter) =>
             Includes(msg.val, TxtTryAgainIn \o err.retryAfter.v \o TxtSecondsDot)
       /\ ~IsPresent(err.retryAfter) => Includes(msg.val, TxtWaitFewMinutes)
       /\ \/ Includes(msg.val, TxtTryAgainIn)
          \/ Includes(msg.val, TxtWaitFewMinutes)

C8_Witness ==
    /\ msg.done /\ err.isError
    /\ err.status = Num(403) /\ err.apiMsg = Str(InApiRateLimit)
    /\ err.retryAfter = Str(<<"1", "2", "0">>)
    /\ Includes(msg.val, <<"1", "2", "0">>)

\* C9: the 422 message carries the provider message and the 429 message the
\* retry-after value when there is one; without it the message is the
\* category's own text, not the Unknown fallback.
C9_ValidationAndSecondaryDetail ==
    (msg.done /\ err.isError) =>
       /\ err.status = Num(422) =>
             /\ CategoryOf(msg.val) = "Validation"
             /\ Includes(msg.val, ProviderMessage(err))
             /\ ProviderMessage(err) = <<>> => msg.val = TxtValidation \o TxtCheckInput
       /\ err.status = Num(429) =>
             /\ CategoryOf(msg.val) = "RateLimitedSecondary"
             /\ IsPresent(err.retryAfter) => Includes(msg.val, err.retryAfter.v)
             /\ ~Truthy(err.retryAfter) => msg.val = TxtSecondary

C9_Witness ==
    /\ msg.done /\ err.isError
    /\ err.status = Num(422) /\ err.apiMsg = Str(InValidationFailed)
    /\ msg.val = TxtValidation \o TxtColonSpace \o InValidationFailed

\* C10: for a status outside 401, 403, 404, 422, 429, 451, an absent one
\* included, the message is the provider message when there is a non-empty
\* one, and Error.message otherwise.
C10_UnknownFallsBack ==
    (msg.done /\ err.isError
       /\ err.status \notin {Num(401), Num(403), Num(404), Num(422), Num(429), Num(451)}) =>
          msg.val = IF ProviderMessage(err) # <<>> THEN ProviderMessage(err)
                    ELSE err.message

C10_Witness ==
    /\ msg.done /\ err.isError
    /\ err.status = Num(999) /\ err.apiMsg = Str(InWeirdFailure)
    /\ msg.val = InWeirdFailure

(***************************************************************************)
(* src/src/api/client.ts: friendlyError on the value as it was thrown      *)
(***************************************************************************)
\* a JS object with the given fields, and the TypeError a property read of
\* undefined or null raises
Obj(fields) == [t |-> "object", v |-> fields]
TypeError == [t |-> "throw", v |-> <<>>]

\* variant: o.f, which raises when o is undefined or null
OptionalChain_unguarded(o, f) ==
    IF o.t = "throw" THEN o
    ELSE IF o.t \in {"undefined", "null"} THEN TypeError
    ELSE o.v[f]

\* o?.f: undefined when o is undefined or null (a raised error propagates)
OptionalChain(o, f) ==
    IF o.t = "throw" THEN o
    ELSE IF o.t \in {"undefined", "null"} THEN Undefined
    ELSE o.v[f]

\* the values a failed request throws: Errors with every shape of `response`
Responses ==
    {Undefined}
    \cup { Obj([data |-> d, headers |-> h]) :
             d \in {Undefined}
                   \cup { Obj([message |-> m]) :
                            m \in {Undefined, Str(InApiRateLimit), Str(InValidationFailed)} },
             h \in {Undefined}
                   \cup { Obj([retryAfter |-> ra]) : ra \in {Undefined, Str(<<"1", "2", "0">>)} } }

ThrownErrors ==
    { [isError |-> TRUE, value |-> Undefined, message |-> InNetworkTimeout,
       status |-> st, response |-> r] :
        st \in Statuses, r \in Responses }

\* thrown values that are not Errors
ThrownValues ==
    { [isError |-> FALSE, value |-> v, message |-> <<>>, status |-> Undefined,
       response |-> Undefined] :
        v \in {Str(InSomethingWrong), Str(<<>>), Num(42), Num(0), Bool(TRUE), Bool(FALSE),
               Null, Undefined} }

\* what friendlyError reads off the thrown value: err instanceof Error, e.status,
\* e.response?.data?.message and e.response?.headers?.["retry-after"]
ReadError(x) ==
    [isError |-> x.isError, value |-> x.value, message |-> x.message, status |-> x.status,
     apiMsg |-> IF x.isError
                THEN OptionalChain(OptionalChain(x.response, "data"), "message")
                ELSE Undefined,
     retryAfter |-> IF x.isError
                    THEN OptionalChain(OptionalChain(x.response, "headers"), "retryAfter")
                    ELSE Undefined]

\* friendlyError(err) called on a thrown value: the string it returns, or that it raised
ClassifyThrown ==
    /\ ~msg.done
    /\ LET e == ReadError(err)
       IN  msg' = IF e.apiMsg.t = "throw" \/ e.retryAfter.t = "throw"
                  THEN [done |-> TRUE, val |-> <<>>, threw |-> TRUE]
                  ELSE [done |-> TRUE, val |-> friendlyError(e), threw |-> FALSE]
    /\ UNCHANGED <<cacheVars, keyVars, pageVars, raceVars, err>>

InitThrown ==
    /\ CacheIdle
    /\ KeyIdle
    /\ PageIdle
    /\ RaceIdle
    /\ err \in ThrownErrors \cup ThrownValues
    /\ msg = [done |-> FALSE, val |-> <<>>, threw |-> FALSE]

NextThrown == ClassifyThrown

SpecThrown == InitThrown /\ [][NextThrown]_vars

(***************************************************************************)
(* Response failure classifier on thrown values: properties                *)
(***************************************************************************)
\* String(value) of the thrown values that are not Errors, written out
StringOfThrownValue(v) ==
    CASE v = Str(InSomethingWrong) -> InSomethingWrong
      [] v = Str(<<>>) -> <<>>
      [] v = Num(42) -> <<"4", "2">>
      [] v = Num(0) -> <<"0">>
      [] v = Bool(TRUE) -> <<"t", "r", "u", "e">>
      [] v = Bool(FALSE) -> <<"f", "a", "l", "s", "e">>
      [] v = Null -> <<"n", "u", "l", "l">>
      [] v = Undefined -> <<"u", "n", "d", "e", "f", "i", "n", "e", "d">>

\* the provider message and retry-after a thrown Error carries, whatever part
\* of `response` is missing
CarriedBy(x) ==
    LET r == x.response
        d == IF r.t = "object" THEN r.v.data ELSE Undefined
        h == IF r.t = "object" THEN r.v.headers ELSE Undefined
    IN  [status |-> x.status,
         apiMsg |-> IF d.t = "object" THEN d.v.message ELSE Undefined,
         retryAfter |-> IF h.t = "object" THEN h.v.retryAfter ELSE Undefined]

\* C11: the classifier is total and pure. Whatever is thrown (an Error with any
\* status and with any part of its response missing, or a value that is not an
\* Error) it raises nothing and returns a string: String(value) for a value
\* that is not an Error, and for an Error a message of the category its status
\* and provider message select. The call changes nothing but its own result.
C11_ClassifierTotalAndPure ==
    /\ [](msg.done =>
            /\ ~msg.threw
            /\ ~err.isError => msg.val = StringOfThrownValue(err.value)
            /\ err.isError => CategoryOf(msg.val) = ExpectedCategory(CarriedBy(err)))
    /\ [][msg' # msg => UNCHANGED <<cacheVars, keyVars, pageVars, raceVars, err>>]_vars

C11_Witness ==
    /\ msg.done /\ ~msg.threw
    /\ err.isError /\ err.status = Num(403) /\ err.response = Undefined
    /\ CategoryOf(msg.val) = "ForbiddenScopes"

(***************************************************************************)
(* Numbers of the page loop: parseInt, Math.min, ++, ===                   *)
(***************************************************************************)
IsDigit(ch) == \E i \in 1..10 : Digits[i] = ch
DigitValue(ch) == (CHOOSE i \in 1..10 : Digits[i] = ch) - 1

\* the longest prefix of s made of decimal digits
RECURSIVE DigitsPrefix(_)
DigitsPrefix(s) ==
    IF s = <<>> \/ ~IsDigit(Head(s)) THEN <<>>
    ELSE <<Head(s)>> \o DigitsPrefix(Tail(s))

\* the value of a non-empty sequence of decimal digits
RECURSIVE DecimalValue(_)
DecimalValue(ds) ==
    IF Len(ds) = 1 THEN DigitValue(ds[1])
    ELSE 10 * DecimalValue(SubSeq(ds, 1, Len(ds) - 1)) + DigitValue(ds[Len(ds)])

RECURSIVE TrimStart(_)
TrimStart(s) == IF s # <<>> /\ Head(s) = " " THEN TrimStart(Tail(s)) ELSE s

\* parseInt(s, 10): leading blanks, an optional sign, then the digits up to the
\* first other character; NaN when there is no digit
ParseInt(s) ==
    LET t == TrimStart(s)
        signed == t # <<>> /\ Head(t) \in {"-", "+"}
        ds == DigitsPrefix(IF signed THEN Tail(t) ELSE t)
    IN  IF ds = <<>> THEN NaN
        ELSE IF signed /\ Head(t) = "-" THEN Num(0 - DecimalValue(ds))
        ELSE Num(DecimalValue(ds))

\* Math.min(a, b)
MathMin(a, b) ==
    IF a.t = "NaN" \/ b.t = "NaN" THEN NaN
    ELSE IF a.v <= b.v THEN a ELSE b

\* variant: the page number advances by two
Increment_byTwo(p) == IF p.t = "NaN" THEN NaN ELSE Num(p.v + 2)

\* the value of p after p++
Increment(p) == IF p.t = "NaN" THEN NaN ELSE Num(p.v + 1)

\* a === b on numbers: NaN equals nothing
StrictEquals(a, b) == a.t = "number" /\ b.t = "number" /\ a.v = b.v

\* a * b < c on numbers: false when NaN is involved
ProductLess(a, b, c) ==
    a.t = "number" /\ b.t = "number" /\ c.t = "number" /\ a.v * b.v < c.v

(***************************************************************************)
(* The page loop of repo list, pr list, issue list and search repos        *)
(* src/src/commands/repo.ts, actions.ts, issue.ts and the search command   *)
(***************************************************************************)
\* number of pages one invocation loads
MaxLoads == 2

\* option values as typed on the command line
OptDefaultPage == <<"1">>
OptDefaultLimit == NumberToString(DEFAULT_PER_PAGE)
PageOptions == {Undefined, Str(<<"2">>), Str(<<"a", "b", "c">>)}
LimitOptions == {Undefined, Str(<<"2">>), Str(<<"2", "0", "0">>), Str(<<"0">>)}

\* the commands invoked, with their arguments and filters
Commands ==
    { [NoOptions EXCEPT !.cmd = "repo list", !.username = u, !.type = Str(StrAll),
                        !.sort = Str(StrUpdated)] : u \in {Undefined, Str(StrOwner)} }
    \cup { [NoOptions EXCEPT !.cmd = "pr list", !.owner = Str(StrOwner),
                             !.repo = Str(StrRepo), !.state = Str(StrOpen)] }
    \cup { [NoOptions EXCEPT !.cmd = "issue list", !.owner = Str(StrOwner),
                             !.repo = Str(StrRepo), !.state = Str(StrOpen),
                             !.label = Str(StrX)] }
    \cup { [NoOptions EXCEPT !.cmd = "search repos", !.query = Str(StrX),
                             !.sort = Str(StrStars)] }

\* an invocation: the command, --page, --limit, --all-pages and whether a token
\* is stored, which only listing one's own repos asks about
Invocations ==
    { i \in [q : Commands, pageOpt : PageOptions, limitOpt : LimitOptions,
              allPages : BOOLEAN, authed : BOOLEAN] :
        i.authed \/ (i.q.cmd = "repo list" /\ ~IsPresent(i.q.username)) }

\* opts.page and opts.limit: the option's default when it is not given
OptPage(i) == IF IsPresent(i.pageOpt) THEN i.pageOpt.v ELSE OptDefaultPage
OptLimit(i) == IF IsPresent(i.limitOpt) THEN i.limitOpt.v ELSE OptDefaultLimit

\* Math.min(parseInt(opts.limit, 10), 100)
PerPageOf(i) == MathMin(ParseInt(OptLimit(i)), Num(100))

\* variant: the loop starts at page 1 whatever --page says
StartPageOf_ignoresOption(i) == Num(1)

\* parseInt(opts.page, 10)
StartPageOf(i) == ParseInt(OptPage(i))

\* the command with the page and page size of one iteration
AtPage(i, pg, pp) == [i.q EXCEPT !.page = pg, !.perPage = pp]

\* what the handler does, in order
Event(ev, k, rq, pg, n, res, txt) ==
    [ev |-> ev, key |-> k, req |-> rq, page |-> pg, n |-> n, res |-> res, text |-> txt]
Printed(ev, pg, n) == Event(ev, <<>>, NoParams, pg, n, "", <<>>)

\* a loaded page: its items, the total the provider reports (search only) and
\* the request it answers
PageData(n, total, rq) == [n |-> n, total |-> total, req |-> rq]
\* no page: the value of `repos` after a cache miss
NoPage == [n |-> 0, total |-> Undefined, req |-> NoParams]

\* variant: search repos decides by the page length alone
HasMore_lengthOnly(cmd, n, pg, pp, total) == StrictEquals(Num(n), pp)

\* hasMore: items.length === perPage, and for search repos also
\* page * perPage < totalCount
HasMore(cmd, n, pg, pp, total) ==
    /\ StrictEquals(Num(n), pp)
    /\ cmd = "search repos" => ProductLess(pg, pp, total)

\* variant: the prompt is shown after every full page, with or without --all-pages
Render_ignoresAllPages(i, tr, pg, pp, data) ==
    LET titled == IF i.q.cmd = "search repos" /\ StrictEquals(pg, StartPageOf(i))
                  THEN tr \o <<Printed("title", pg, 0)>>
                  ELSE tr
        shown == titled \o <<Printed("table", pg, data.n), Printed("pageInfo", pg, data.n)>>
    IN  IF data.n = 0
        THEN [pc |-> "done", trace |-> titled \o <<Printed("empty", pg, 0)>>]
        ELSE IF ~HasMore(i.q.cmd, data.n, pg, pp, data.total)
        THEN [pc |-> "done", trace |-> shown]
        ELSE [pc |-> "prompt", trace |-> shown \o <<Printed("prompt", pg, 0)>>]

\* variant: the request for the next page is sent along with the prompt
Render_prefetches(i, tr, pg, pp, data) ==
    LET titled == IF i.q.cmd = "search repos" /\ StrictEquals(pg, StartPageOf(i))
                  THEN tr \o <<Printed("title", pg, 0)>>
                  ELSE tr
        shown == titled \o <<Printed("table", pg, data.n), Printed("pageInfo", pg, data.n)>>
        ahead == AtPage(i, Increment(pg), pp)
    IN  IF data.n = 0
        THEN [pc |-> "done", trace |-> titled \o <<Printed("empty", pg, 0)>>]
        ELSE IF ~HasMore(i.q.cmd, data.n, pg, pp, data.total) \/ ~i.allPages
        THEN [pc |-> "done", trace |-> shown]
        ELSE [pc |-> "prompt",
              trace |-> shown \o <<Printed("prompt", pg, 0),
                                   Event("fetch", QueryKey(ahead), Request(ahead),
                                         Increment(pg), 0, "", <<>>)>>]

\* variant: an empty page is followed by the prompt like a full one
Render_promptsOnEmpty(i, tr, pg, pp, data) ==
    LET titled == IF i.q.cmd = "search repos" /\ StrictEquals(pg, StartPageOf(i))
                  THEN tr \o <<Printed("title", pg, 0)>>
                  ELSE tr
        shown == titled \o <<Printed("table", pg, data.n), Printed("pageInfo", pg, data.n)>>
    IN  IF data.n = 0 /\ ~i.allPages
        THEN [pc |-> "done", trace |-> titled \o <<Printed("empty", pg, 0)>>]
        ELSE IF data.n = 0
        THEN [pc |-> "prompt", trace |-> titled \o <<Printed("empty", pg, 0),
                                                     Printed("prompt", pg, 0)>>]
        ELSE IF ~HasMore(i.q.cmd, data.n, pg, pp, data.total) \/ ~i.allPages
        THEN [pc |-> "done", trace |-> shown]
        ELSE [pc |-> "prompt", trace |-> shown \o <<Printed("prompt", pg, 0)>>]

\* the rest of an iteration once its page is loaded: title (search repos, first
\* page), "No ..." and stop on an empty page, else table and page line, then
\* hasMore and either stop or ask to load more. Result: the position reached
\* and the trace.
Render(i, tr, pg, pp, data) ==
    LET titled == IF i.q.cmd = "search repos" /\ StrictEquals(pg, StartPageOf(i))
                  THEN tr \o <<Printed("title", pg, 0)>>
                  ELSE tr
        shown == titled \o <<Printed("table", pg, data.n), Printed("pageInfo", pg, data.n)>>
    IN  IF data.n = 0
        THEN [pc |-> "done", trace |-> titled \o <<Printed("empty", pg, 0)>>]
        ELSE IF ~HasMore(i.q.cmd, data.n, pg, pp, data.total) \/ ~i.allPages
        THEN [pc |-> "done", trace |-> shown]
        ELSE [pc |-> "prompt", trace |-> shown \o <<Printed("prompt", pg, 0)>>]

\* variant: the request is sent without looking in the cache
LoopTop_skipsCache(i, tr, st, t, pg, pp, f) ==
    LET k == QueryKey(AtPage(i, pg, pp))
    IN  [pc |-> "fetching", store |-> st, loaded |-> NoPage,
         trace |-> tr \o <<Printed("spinner", pg, 0),
                           Event("fetch", k, Request(AtPage(i, pg, pp)), pg, 0, "", <<>>)>>]

\* the top of the while loop up to the first await: key, cacheGet, and on a hit
\* the rest of the iteration, on a miss the spinner and the request
LoopTop(i, tr, st, t, pg, pp, f) ==
    LET k == QueryKey(AtPage(i, pg, pp))
        r == cacheGet(st, t, k, f)
        got == tr \o <<Event("cacheGet", k, NoParams, pg,
                             IF r.branch = "hit" THEN r.val.n ELSE 0, r.branch, <<>>)>>
    IN  IF r.branch = "hit"
        THEN LET x == Render(i, got, pg, pp, r.val)
             IN  [pc |-> x.pc, store |-> r.store, loaded |-> r.val, trace |-> x.trace]
        ELSE [pc |-> "fetching", store |-> r.store, loaded |-> NoPage,
              trace |-> got \o <<Printed("spinner", pg, 0),
                                 Event("fetch", k, Request(AtPage(i, pg, pp)), pg, 0, "", <<>>)>>]

\* the command is invoked: options parsed, requireAuth for one's own repos,
\* title, then the first iteration up to its first await
Invoke(f) ==
    /\ pc = "start"
    /\ perPage' = PerPageOf(inv)
    /\ IF inv.q.cmd = "repo list" /\ ~IsPresent(inv.q.username) /\ ~inv.authed
       THEN /\ pc' = "exited"
            /\ trace' = <<Printed("notAuthenticated", Undefined, 0)>>
            /\ UNCHANGED <<page, loaded, store>>
       ELSE LET tr == IF inv.q.cmd = "search repos" THEN <<>>
                      ELSE <<Printed("title", StartPageOf(inv), 0)>>
                x == LoopTop(inv, tr, store, now, StartPageOf(inv), PerPageOf(inv), f)
            IN  /\ page' = StartPageOf(inv)
                /\ loaded' = x.loaded
                /\ pc' = x.pc
                /\ store' = x.store
                /\ trace' = x.trace
    /\ UNCHANGED <<inv, remote, earlier, now, ret, keyVars, errVars, raceVars>>

\* the numbers of items a provider returns for a page of size pp
ItemCounts(pp) ==
    IF pp.t = "number" /\ pp.v >= 1
    THEN {0, IF pp.v > 12 THEN 12 ELSE pp.v - 1, pp.v}
    ELSE {0, 12, DEFAULT_PER_PAGE}

\* the responses to the request in flight: the number of items, how many of them
\* are pull requests (issue list) and total_count (search repos: either this
\* page is the last one or 12 more results remain)
PageResponses(i, pg, pp) ==
    LET PullRequests(n) == IF i.q.cmd = "issue list" /\ n >= 1 THEN {0, 1} ELSE {0}
        Seen(n) == IF pg.t = "number" /\ pp.t = "number" /\ pg.v >= 1
                   THEN (pg.v - 1) * pp.v + n ELSE n
        Totals(n) == IF i.q.cmd = "search repos" THEN {Seen(n), Seen(n) + 12} ELSE {0}
    IN  UNION { { [n |-> n, prs |-> k, total |-> Num(tot)] :
                    k \in PullRequests(n), tot \in Totals(n) } :
                n \in ItemCounts(pp) }

\* the request succeeds: the items (issue list: without the pull requests) are
\* cached, the spinner stops and the iteration goes on
FetchReturns(resp, f) ==
    /\ pc = "fetching"
    /\ LET k == QueryKey(AtPage(inv, page, perPage))
           data == PageData(resp.n - resp.prs, resp.total, Request(AtPage(inv, page, perPage)))
           c == cacheSet(store, now, k, data, f)
           tr == trace \o <<Event("cacheSet", k, NoParams, page, data.n, c.branch, <<>>),
                            Printed("spinnerStop", page, 0)>>
           x == Render(inv, tr, page, perPage, data)
       IN  /\ store' = c.store
           /\ loaded' = data
           /\ pc' = x.pc
           /\ trace' = x.trace
    /\ UNCHANGED <<inv, remote, earlier, page, perPage, now, ret, keyVars, errVars, raceVars>>

\* the failures of a request
FetchErrors ==
    { e \in Errors :
        /\ e.retryAfter = Undefined
        /\ \/ e.status = Num(401) /\ e.apiMsg = Undefined /\ e.message = InBadCredentials
           \/ e.status = Num(403) /\ e.apiMsg = Str(InApiRateLimit) /\ e.message = InBadCredentials
           \/ e.status = Undefined /\ e.apiMsg = Undefined /\ e.message = InNetworkTimeout }

\* variant: the failed request is sent again after the message
FetchFails_retries(e) ==
    /\ pc = "fetching"
    /\ pc' = "fetching"
    /\ err' = e
    /\ msg' = [done |-> TRUE, val |-> friendlyError(e)]
    /\ trace' = trace \o <<Printed("spinnerFail", page, 0),
                           Event("error", <<>>, NoParams, page, 0, "", friendlyError(e)),
                           Event("fetch", QueryKey(AtPage(inv, page, perPage)),
                                 Request(AtPage(inv, page, perPage)), page, 0, "", <<>>)>>
    /\ UNCHANGED <<inv, remote, earlier, page, perPage, loaded, store, now, ret, keyVars, raceVars>>

\* variant: the failed request leaves an empty page in the cache
FetchFails_cachesEmpty(e) ==
    /\ pc = "fetching"
    /\ pc' = "done"
    /\ err' = e
    /\ msg' = [done |-> TRUE, val |-> friendlyError(e)]
    /\ store' = cacheSet(store, now, QueryKey(AtPage(inv, page, perPage)),
                         PageData(0, Num(0), Request(AtPage(inv, page, perPage))), "none").store
    /\ trace' = trace \o <<Printed("spinnerFail", page, 0),
                           Event("error", <<>>, NoParams, page, 0, "", friendlyError(e))>>
    /\ UNCHANGED <<inv, remote, earlier, page, perPage, loaded, now, ret, keyVars, raceVars>>

\* the request fails: catch (err), spinner.fail, printError(friendlyError(err)), return
FetchFails(e) ==
    /\ pc = "fetching"
    /\ pc' = "done"
    /\ err' = e
    /\ msg' = [done |-> TRUE, val |-> friendlyError(e)]
    /\ trace' = trace \o <<Printed("spinnerFail", page, 0),
                           Event("error", <<>>, NoParams, page, 0, "", friendlyError(e))>>
    /\ UNCHANGED <<inv, remote, earlier, page, perPage, loaded, store, now, ret, keyVars, raceVars>>

\* variant: the next page is loaded whatever the answer
Answer_ignoresAnswer(more, f) ==
    /\ pc = "prompt"
    /\ Cardinality({n \in 1..Len(trace) : trace[n].ev = "cacheGet"}) < MaxLoads
    /\ page' = Increment(page)
    /\ LET tr == trace \o <<Event("answer", <<>>, NoParams, page, 0,
                                  IF more THEN "yes" ELSE "no", <<>>)>>
           x == LoopTop(inv, tr, store, now, Increment(page), perPage, f)
       IN  pc' = x.pc /\ store' = x.store /\ loaded' = x.loaded /\ trace' = x.trace
    /\ UNCHANGED <<inv, remote, earlier, perPage, now, ret, keyVars, errVars, raceVars>>

\* variant: the loop goes round without page++
Answer_keepsPage(more, f) ==
    /\ pc = "prompt"
    /\ more => Cardinality({n \in 1..Len(trace) : trace[n].ev = "cacheGet"}) < MaxLoads
    /\ page' = page
    /\ LET tr == trace \o <<Event("answer", <<>>, NoParams, page, 0,
                                  IF more THEN "yes" ELSE "no", <<>>)>>
       IN  IF more
           THEN LET x == LoopTop(inv, tr, store, now, page, perPage, f)
                IN  pc' = x.pc /\ store' = x.store /\ loaded' = x.loaded /\ trace' = x.trace
           ELSE pc' = "done" /\ trace' = tr /\ UNCHANGED <<store, loaded>>
    /\ UNCHANGED <<inv, remote, earlier, perPage, now, ret, keyVars, errVars, raceVars>>

\* askLoadMore resolves: continueLoop = answer; page++; then the loop test
Answer(more, f) ==
    /\ pc = "prompt"
    /\ more => Cardinality({n \in 1..Len(trace) : trace[n].ev = "cacheGet"}) < MaxLoads
    /\ page' = Increment(page)
    /\ LET tr == trace \o <<Event("answer", <<>>, NoParams, page, 0,
                                  IF more THEN "yes" ELSE "no", <<>>)>>
       IN  IF more
           THEN LET x == LoopTop(inv, tr, store, now, Increment(page), perPage, f)
                IN  pc' = x.pc /\ store' = x.store /\ loaded' = x.loaded /\ trace' = x.trace
           ELSE pc' = "done" /\ trace' = tr /\ UNCHANGED <<store, loaded>>
    /\ UNCHANGED <<inv, remote, earlier, perPage, now, ret, keyVars, errVars, raceVars>>

\* what earlier invocations may have left in the cache for this one: nothing,
\* or the first or the second page it will ask for, written TTL_MS ago or 1 ms
\* before that
PriorStores(i) ==
    LET pp == PerPageOf(i)
        Entries(pg) ==
            { [k |-> QueryKey(AtPage(i, pg, pp)),
               e |-> [data |-> PageData(r.n, r.total, Request(AtPage(i, pg, pp))), ts |-> ts]] :
                r \in {r \in PageResponses(i, pg, pp) :
                         r.prs = 0 /\ r.n \in {12, pp.v - 1, pp.v}},
                ts \in {0, 1} }
    IN  {StoreClear}
        \cup { StoreSet(StoreClear, x.k, x.e) :
                 x \in Entries(StartPageOf(i)) \cup Entries(Increment(StartPageOf(i))) }

InitPage ==
    /\ KeyIdle
    /\ ErrIdle
    /\ RaceIdle
    /\ inv \in Invocations
    /\ pc = "start"
    /\ page = Undefined
    /\ perPage = Undefined
    /\ loaded = NoPage
    /\ trace = <<>>
    /\ remote = [items |-> 0, prs |-> {}]
    /\ earlier = <<>>
    /\ now = TTL_MS + 1
    /\ ret = NoCall
    /\ store \in PriorStores(inv)

NextPage ==
    \/ \E f \in {"none", "get", "delete"} : Invoke(f)
    \/ \E resp \in PageResponses(inv, page, perPage), f \in {"none", "set"} : FetchReturns(resp, f)
    \/ \E e \in FetchErrors : FetchFails(e)
    \/ \E more \in BOOLEAN, f \in {"none", "get"} : Answer(more, f)

SpecPage == InitPage /\ [][NextPage]_vars

(***************************************************************************)
(* Page loop: properties                                                   *)
(***************************************************************************)
\* this step printed a page: its table and its page line
RenderedNow == \E j \in (Len(trace) + 1)..Len(trace') : trace'[j].ev = "pageInfo"

\* this step ended by asking whether to load the next page
PromptedNow ==
    /\ pc' = "prompt"
    /\ Len(trace') > Len(trace)
    /\ trace'[Len(trace')].ev = "prompt"

\* the page printed by this step holds exactly perPage items
FullPageNow == StrictEquals(Num(loaded'.n), perPage')

\* C12 as stated: for all four commands, with --all-pages, a printed page is
\* followed by the prompt exactly when it holds perPage items, whatever total
\* the provider reports.
C12_UniformHasMore ==
    [][(RenderedNow /\ inv.allPages) => (PromptedNow <=> FullPageNow)]_vars

\* C12, amended: for repo list, pr list and issue list a printed page is
\* followed by the prompt exactly when it holds perPage items; for search repos
\* exactly when it holds perPage items and page * perPage is below the
\* total_count of that page.
C12_HasMoreByLengthAndTotal ==
    [][(RenderedNow /\ inv.allPages) =>
          (PromptedNow <=>
              /\ FullPageNow
              /\ inv.q.cmd = "search repos" =>
                    /\ page'.t = "number"
                    /\ page'.v * perPage'.v < loaded'.total.v)]_vars

\* search repos, --all-pages: a full page that reaches the reported total is
\* printed and the command ends without a prompt
C12_Witness ==
    /\ inv.q.cmd = "search repos" /\ inv.allPages
    /\ pc = "done"
    /\ trace # <<>> /\ trace[Len(trace)].ev = "pageInfo"
    /\ loaded.n >= 1 /\ StrictEquals(Num(loaded.n), perPage)
    /\ loaded.total = Num(page.v * perPage.v)

\* the events this step added to the trace
NewEvents == {trace'[j] : j \in (Len(trace) + 1)..Len(trace')}

\* this step loaded a page: from the cache or from the provider
LoadedNow ==
    \E e \in NewEvents : e.ev = "cacheSet" \/ (e.ev = "cacheGet" /\ e.res = "hit")

\* the number of prompts shown so far
Prompts == Cardinality({j \in 1..Len(trace) : trace[j].ev = "prompt"})

\* C13: a step that loads a page with fewer than perPage items, or any page
\* without --all-pages, ends the command with no prompt; a prompt is shown only
\* with --all-pages, after a printed page of exactly perPage items, and never
\* at all without --all-pages.
C13_DoneWithoutPrompt ==
    /\ [](~inv.allPages => Prompts = 0)
    /\ [][/\ (LoadedNow /\ (~inv.allPages \/ (perPage'.t = "number" /\ loaded'.n < perPage'.v)))
               => (pc' = "done" /\ \A e \in NewEvents : e.ev # "prompt")
          /\ (PromptedNow \/ \E e \in NewEvents : e.ev = "prompt")
               => (inv.allPages /\ FullPageNow /\ RenderedNow /\ PromptedNow)]_vars

C13_Witness ==
    /\ inv.allPages /\ pc = "done" /\ Prompts = 0
    /\ perPage = Num(DEFAULT_PER_PAGE) /\ loaded.n = 12
    /\ trace[Len(trace)].ev = "pageInfo"

\* how many events of a kind the trace holds
Count(ev) == Cardinality({j \in 1..Len(trace) : trace[j].ev = ev})

\* the cache key of page pg of the running command
KeyOfPage(pg) == QueryKey(AtPage(inv, Num(pg), perPage))

\* the command was started at page 1 with 30 items a page and --all-pages, found
\* the cache empty, was sent 30 items and stored them, and the operator has
\* just answered the prompt
FirstPageFullThenAnswered(answer) ==
    /\ inv.allPages /\ StartPageOf(inv) = Num(1) /\ perPage = Num(DEFAULT_PER_PAGE)
    /\ \E j \in 1..Len(trace) :
          /\ trace[j].ev = "cacheSet" /\ trace[j].page = Num(1)
          /\ trace[j].n = DEFAULT_PER_PAGE /\ trace[j].res = "stored"
    /\ \E j \in 1..Len(trace) :
          /\ trace[j].ev = "answer" /\ trace[j].page = Num(1) /\ trace[j].res = answer

\* C14: a step in which the operator answers no adds nothing but the answer to
\* the trace (no cache read, no request, no cache write, no message), leaves
\* the store alone and ends the command, and an ended command takes no further
\* step. In the scenario (page 1, 30 a page, --all-pages, empty cache, 30 items
\* returned, answer no) the command is done with one request sent, one entry
\* stored, which is the only one in the cache, and no failure message.
C14_DeclineEndsCleanly ==
    /\ [][/\ pc # "done"
          /\ (\E e \in NewEvents : e.ev = "answer" /\ e.res = "no")
               => /\ pc' = "done"
                  /\ store' = store
                  /\ \A e \in NewEvents : e.ev = "answer"]_vars
    /\ []((FirstPageFullThenAnswered("no") /\ KeyOfPage(2) \notin DOMAIN store)
            => /\ pc = "done"
               /\ Count("fetch") = 1 /\ Count("cacheSet") = 1 /\ Count("cacheGet") = 1
               /\ Count("error") = 0 /\ Count("prompt") = 1
               /\ DOMAIN store = {KeyOfPage(1)})

C14_Witness ==
    /\ FirstPageFullThenAnswered("no") /\ KeyOfPage(2) \notin DOMAIN store
    /\ pc = "done" /\ Count("fetch") = 1 /\ DOMAIN store = {KeyOfPage(1)}
    /\ trace[Len(trace)].ev = "answer"

\* the events this step added after the operator's answer, in order
AfterAnswer == SubSeq(trace', Len(trace) + 2, Len(trace'))

\* C15: when the operator answers yes after page N, the same step looks up the
\* cache key of page N + 1 (same command, filters and page size) and, on a
\* miss, sends the request for page N + 1 with the same filters and page size;
\* `page` is N + 1 from then on. In the scenario (page 1, 30 a page,
\* --all-pages, empty cache, 30 items, answer yes, then 12 items) the command
\* is done after two requests and two stored entries, the keys of pages 1 and
\* 2, and one prompt.
C15_AcceptAdvancesOnePage ==
    /\ [][(/\ page.t = "number"
           /\ Len(trace') > Len(trace)
           /\ trace'[Len(trace) + 1].ev = "answer" /\ trace'[Len(trace) + 1].res = "yes")
            => LET next == AtPage(inv, Num(page.v + 1), perPage)
               IN  /\ page' = Num(page.v + 1) /\ perPage' = perPage /\ inv' = inv
                   /\ AfterAnswer # <<>>
                   /\ AfterAnswer[1].ev = "cacheGet" /\ AfterAnswer[1].key = QueryKey(next)
                   /\ \A j \in 1..Len(AfterAnswer) :
                         /\ AfterAnswer[j].ev = "fetch" => AfterAnswer[j].req = Request(next)
                         /\ AfterAnswer[j].page = Num(page.v + 1)
                   /\ pc' = "fetching" <=> AfterAnswer[1].res # "hit"
                   /\ pc' = "fetching" => AfterAnswer[Len(AfterAnswer)].ev = "fetch"]_vars
    /\ []((/\ FirstPageFullThenAnswered("yes")
           /\ \A j \in 1..Len(trace) : trace[j].ev = "cacheGet" => trace[j].res = "absent"
           /\ \E j \in 1..Len(trace) :
                 /\ trace[j].ev = "cacheSet" /\ trace[j].page = Num(2)
                 /\ trace[j].n = 12 /\ trace[j].res = "stored")
            => /\ pc = "done"
               /\ Count("fetch") = 2 /\ Count("cacheSet") = 2 /\ Count("cacheGet") = 2
               /\ Count("prompt") = 1 /\ Count("error") = 0
               /\ DOMAIN store = {KeyOfPage(1), KeyOfPage(2)}
               /\ KeyOfPage(1) # KeyOfPage(2))

C15_Witness ==
    /\ FirstPageFullThenAnswered("yes")
    /\ \A j \in 1..Len(trace) : trace[j].ev = "cacheGet" => trace[j].res = "absent"
    /\ pc = "done" /\ page = Num(2) /\ loaded.n = 12
    /\ Count("fetch") = 2 /\ Count("prompt") = 1
    /\ DOMAIN store = {KeyOfPage(1), KeyOfPage(2)}

\* C16: the step in which a request fails, at the first page or a later one,
\* appends to what was printed before, unchanged, the spinner's failure mark
\* and one message, the classifier's for the failure caught; it shows no
\* prompt, sends no request and ends the command, which takes no further step.
\* No run prints more than one failure message.
C16_FetchFailureTerminates ==
    /\ [][/\ pc # "done"
          /\ (\E e \in NewEvents : e.ev = "error")
               => /\ pc = "fetching" /\ pc' = "done"
                  /\ SubSeq(trace', 1, Len(trace)) = trace
                  /\ Len(trace') = Len(trace) + 2
                  /\ trace'[Len(trace) + 1].ev = "spinnerFail"
                  /\ trace'[Len(trace') ].ev = "error"
                  /\ trace'[Len(trace')].text = msg'.val
                  /\ trace'[Len(trace')].page = page
                  /\ CategoryOf(msg'.val) = ExpectedCategory(err')
                  /\ store' = store /\ page' = page]_vars
    /\ [](/\ Count("error") <= 1
          /\ Count("error") = 1 => (pc = "done" /\ trace[Len(trace)].ev = "error"))

C16_Witness ==
    /\ pc = "done" /\ Count("error") = 1 /\ page = Num(2)
    /\ Count("table") = 1 /\ Count("prompt") = 1
    /\ trace[Len(trace)].ev = "error" /\ trace[Len(trace)].text = Txt401

(***************************************************************************)
(* Two invocations sharing the cache store                                 *)
(* src/src/utils/cache.ts: cacheGet and cacheSet, one store call at a time *)
(***************************************************************************)
Procs == {1, 2}

\* the invocations that race: issue list of one repository, by label or by assignee
RacingQueries ==
    { [NoOptions EXCEPT !.cmd = "issue list", !.owner = Str(StrOwner), !.repo = Str(StrRepo),
                        !.state = Str(StrOpen), !.label = l, !.assignee = a,
                        !.page = Num(1), !.perPage = Num(DEFAULT_PER_PAGE)] :
        l \in {Undefined, Str(StrX)}, a \in {Undefined, Str(StrX)} }
    \ { [NoOptions EXCEPT !.cmd = "issue list", !.owner = Str(StrOwner), !.repo = Str(StrRepo),
                          !.state = Str(StrOpen), !.page = Num(1),
                          !.perPage = Num(DEFAULT_PER_PAGE)] }

\* the entry store.get returned: undefined, or { data, ts }
NoEntry == [has |-> FALSE, data |-> NoPage, ts |-> 0]
EntryOf(s, k) == IF k \in DOMAIN s THEN [has |-> TRUE, data |-> s[k].data, ts |-> s[k].ts]
                 ELSE NoEntry

\* the page the provider returns for a query
AnswerTo(q) == PageData(12, Num(0), Request(q))

\* cacheGet: const entry = store.get(key), inside try
RaceStoreGet(p, f) ==
    /\ procs[p].pc = "get"
    /\ procs' = [procs EXCEPT ![p] =
                   IF f = "get"
                   THEN [@ EXCEPT !.pc = "fetch", !.gets = @ + 1]
                   ELSE [@ EXCEPT !.pc = "check", !.entry = EntryOf(store, QueryKey(procs[p].q))]]
    /\ UNCHANGED <<cacheVars, keyVars, errVars, pageVars, written>>

\* variant: the age of the entry is not looked at
RaceCheck_noExpiry(p) ==
    /\ procs[p].pc = "check"
    /\ procs' = [procs EXCEPT ![p] =
                   IF ~@.entry.has THEN [@ EXCEPT !.pc = "fetch", !.gets = @ + 1]
                   ELSE [@ EXCEPT !.pc = "done", !.gets = @ + 1, !.hit = TRUE,
                                  !.val = procs[p].entry.data, !.at = now]]
    /\ UNCHANGED <<cacheVars, keyVars, errVars, pageVars, written>>

\* cacheGet: if (!entry) return null; if (Date.now() - entry.ts > TTL_MS) ...;
\* return entry.data
RaceCheck(p) ==
    /\ procs[p].pc = "check"
    /\ procs' = [procs EXCEPT ![p] =
                   IF ~@.entry.has THEN [@ EXCEPT !.pc = "fetch", !.gets = @ + 1]
                   ELSE IF now - @.entry.ts > TTL_MS THEN [@ EXCEPT !.pc = "delete"]
                   ELSE [@ EXCEPT !.pc = "done", !.gets = @ + 1, !.hit = TRUE,
                                  !.val = procs[p].entry.data, !.at = now]]
    /\ UNCHANGED <<cacheVars, keyVars, errVars, pageVars, written>>

\* cacheGet: store.delete(key); return null
RaceStoreDelete(p, f) ==
    /\ procs[p].pc = "delete"
    /\ store' = IF f = "delete" THEN store ELSE StoreDelete(store, QueryKey(procs[p].q))
    /\ procs' = [procs EXCEPT ![p] = [@ EXCEPT !.pc = "fetch", !.gets = @ + 1]]
    /\ UNCHANGED <<now, ret, keyVars, errVars, pageVars, written>>

\* the request of an invocation that missed is answered
RaceFetched(p) ==
    /\ procs[p].pc = "fetch"
    /\ procs' = [procs EXCEPT ![p] =
                   [@ EXCEPT !.pc = "set", !.val = AnswerTo(procs[p].q), !.fetches = @ + 1]]
    /\ UNCHANGED <<cacheVars, keyVars, errVars, pageVars, written>>

\* cacheSet: store.set(key, { data, ts: Date.now() }), inside try
RaceStoreSet(p, f) ==
    /\ procs[p].pc = "set"
    /\ LET k == QueryKey(procs[p].q)
           e == [data |-> procs[p].val, ts |-> now]
       IN  IF f = "set"
           THEN UNCHANGED <<store, written>>
           ELSE /\ store' = StoreSet(store, k, e)
                /\ written' = written \cup {[key |-> k, data |-> e.data, ts |-> e.ts]}
    /\ procs' = [procs EXCEPT ![p] = [@ EXCEPT !.pc = "done", !.at = now]]
    /\ UNCHANGED <<now, ret, keyVars, errVars, pageVars>>

\* two invocations start; an earlier one may have cached its page at time 0
InitRace ==
    /\ KeyIdle
    /\ ErrIdle
    /\ PageIdle
    /\ now = 0
    /\ ret = NoCall
    /\ \E qs \in [Procs -> RacingQueries] :
          /\ procs = [p \in Procs |->
                        [pc |-> "get", q |-> qs[p], entry |-> NoEntry, val |-> NoPage,
                         hit |-> FALSE, at |-> 0, gets |-> 0, fetches |-> 0]]
          /\ \/ store = StoreClear /\ written = {}
             \/ /\ store = StoreSet(StoreClear, QueryKey(qs[1]),
                                    [data |-> AnswerTo(qs[1]), ts |-> 0])
                /\ written = {[key |-> QueryKey(qs[1]), data |-> AnswerTo(qs[1]), ts |-> 0]}

NextRace ==
    \/ \E p \in Procs, f \in {"none", "get"} : RaceStoreGet(p, f)
    \/ \E p \in Procs : RaceCheck(p)
    \/ \E p \in Procs, f \in {"none", "delete"} : RaceStoreDelete(p, f)
    \/ \E p \in Procs : RaceFetched(p)
    \/ \E p \in Procs, f \in {"none", "set"} : RaceStoreSet(p, f)
    \/ \E d \in {1, TTL_MS} : Tick(d)

SpecRace == InitRace /\ [][NextRace]_vars

(***************************************************************************)
(* Two invocations sharing the cache store: properties                     *)
(***************************************************************************)
\* what a cacheGet of invocation p returned was written under p's key, by some
\* invocation, no more than TTL_MS before the return; a load sends at most one
\* request, and only after a miss
ReturnsWhatWasWritten(p) ==
    /\ procs[p].hit =>
          \E w \in written :
             /\ w.key = QueryKey(procs[p].q) /\ w.data = procs[p].val
             /\ w.ts <= procs[p].at /\ procs[p].at - w.ts <= TTL_MS
    /\ procs[p].fetches <= 1
    /\ procs[p].hit => procs[p].fetches = 0
    /\ (procs[p].pc = "done" /\ ~procs[p].hit) => procs[p].val = AnswerTo(procs[p].q)

\* what a cacheGet of invocation p returned answers p's own request
ReturnsOwnQuery(p) ==
    procs[p].hit => procs[p].val.req = Request(procs[p].q)

\* C17: however two invocations interleave their store calls, a cacheGet
\* returns a miss or a payload written under its key no more than TTL_MS
\* earlier, a lost write or the deletion of a fresh entry costs at most the one
\* request of that load, and no cacheGet returns the payload of another query.
C17_RaceLastWriteWinsSafe ==
    \A p \in Procs : ReturnsWhatWasWritten(p) /\ ReturnsOwnQuery(p)

\* the part of C17 that is about the interleaving alone
RaceSafeUnderOwnKey == \A p \in Procs : ReturnsWhatWasWritten(p)

\* one invocation has deleted the entry the other had just written: the store
\* is empty although an entry written less than TTL_MS ago exists
FreshEntryDeleted ==
    /\ DOMAIN store = {}
    /\ \E w \in written : now - w.ts <= TTL_MS /\ w.ts > 0
    /\ \A p \in Procs : procs[p].pc = "done"

\* the start page and page size the operator asked for: 1 and DEFAULT_PER_PAGE
\* when the option is omitted, the number typed otherwise
AskedPage ==
    IF ~IsPresent(inv.pageOpt) THEN Num(1)
    ELSE IF inv.pageOpt = Str(<<"2">>) THEN Num(2)
    ELSE NaN
AskedLimit ==
    IF ~IsPresent(inv.limitOpt) THEN Num(DEFAULT_PER_PAGE)
    ELSE IF inv.limitOpt = Str(<<"2">>) THEN Num(2)
    ELSE NaN

\* the first cache lookup and the first request of the run, if made
FirstOf(ev) == trace[CHOOSE j \in 1..Len(trace) :
                        trace[j].ev = ev /\ \A h \in 1..(j - 1) : trace[h].ev # ev]

\* C18: once the handler runs its loop, with --page and --limit omitted or
\* given as numbers, the first cache lookup is under the key of the asked start
\* page and page size (1 and 30 by default), the first request asks for that
\* page and page size, and until the first answer `page` is the start page.
C18_StartsAtRequestedPage ==
    (pc \notin {"start", "exited"} /\ AskedPage # NaN /\ AskedLimit # NaN) =>
       LET first == AtPage(inv, AskedPage, AskedLimit)
       IN  /\ perPage = AskedLimit
           /\ Count("answer") = 0 => page = AskedPage
           /\ Count("cacheGet") >= 1
           /\ FirstOf("cacheGet").key = QueryKey(first)
           /\ FirstOf("cacheGet").page = AskedPage
           /\ \A j \in 1..Len(trace) :
                 trace[j].ev \in {"fetch", "table", "empty", "prompt"}
                    => \E h \in 1..(j - 1) : trace[h].ev = "cacheGet"
           /\ FirstOf("cacheGet").res # "hit" => Count("fetch") >= 1
           /\ (Count("fetch") >= 1 /\ FirstOf("cacheGet").res # "hit")
                    => /\ FirstOf("fetch").req = Request(first)
                       /\ FirstOf("fetch").req.page = AskedPage
                       /\ FirstOf("fetch").req.per_page = AskedLimit

C18_Witness ==
    /\ ~IsPresent(inv.pageOpt) /\ ~IsPresent(inv.limitOpt)
    /\ pc = "fetching" /\ page = Num(1) /\ perPage = Num(30)
    /\ inv.q.cmd = "repo list"
    /\ FirstOf("fetch").req.page = Num(1) /\ FirstOf("fetch").req.per_page = Num(30)
    /\ Len(FirstOf("cacheGet").key) > 6
    /\ SubSeq(FirstOf("cacheGet").key, Len(FirstOf("cacheGet").key) - 6,
              Len(FirstOf("cacheGet").key)) = <<":", ":", "1", ":", ":", "3", "0">>

(***************************************************************************)
(* Cache store: the validity boundary                                      *)
(***************************************************************************)
\* C19: a cacheGet of a stored key, the store not failing, returns the stored
\* payload and leaves the entry exactly when the entry's age is at most TTL_MS
\* (five minutes): at an age of exactly TTL_MS it is a hit, one millisecond
\* later it is a miss and the entry is deleted.
C19_ValidityBoundary ==
    [][\A k \in Keys :
          (/\ ret'.op = "cacheGet" /\ ret'.key = k /\ ret'.branch # "error"
           /\ k \in DOMAIN store)
             => IF now - store[k].ts <= 300000
                THEN ret'.val = store[k].data /\ ret'.val # Miss /\ store' = store
                ELSE ret'.val = Miss /\ k \notin DOMAIN store']_vars

C19_Witness ==
    /\ ret.op = "cacheGet" /\ ret.branch = "hit"
    /\ ret.key \in DOMAIN store
    /\ now - store[ret.key].ts = TTL_MS
    /\ ret.val = store[ret.key].data

\* the entry one millisecond older has been deleted by the read
C19_OneTickOlder ==
    /\ ret.op = "cacheGet" /\ ret.branch = "expired" /\ ret.val = Miss
    /\ now = TTL_MS + 1 /\ ret.key \in ret.pre /\ ret.key \notin DOMAIN store

(***************************************************************************)
(* Page loop: cache before provider                                        *)
(***************************************************************************)
\* the page of event j is printed by event h with no cache lookup in between
PrintedBy(j, h) ==
    /\ j < h /\ h <= Len(trace)
    /\ trace[h].ev \in {"table", "empty"}
    /\ \A g \in (j + 1)..(h - 1) : trace[g].ev # "cacheGet"

\* C20: every iteration starts with the cache lookup of its page's key. After
\* a hit no request is sent for that page; after a miss exactly one request is
\* sent, for the command's filters with that page and page size; when it
\* succeeds cacheSet is called with the same key and the result before the
\* page is printed, and the store, unless it fails, then holds that result
\* under that key.
C20_CacheBeforeFetch ==
    /\ [](\A j \in 1..Len(trace) :
            LET e == trace[j]
                NextLookup == {h \in (j + 1)..Len(trace) : trace[h].ev = "cacheGet"}
                Until == IF NextLookup = {} THEN Len(trace)
                         ELSE (CHOOSE h \in NextLookup : \A g \in NextLookup : h <= g) - 1
                Fetches == {h \in (j + 1)..Until : trace[h].ev = "fetch"}
            IN  /\ e.ev = "cacheGet" =>
                      /\ e.key = QueryKey(AtPage(inv, e.page, perPage))
                      /\ e.res = "hit" => Fetches = {}
                      /\ e.res # "hit" =>
                            /\ Cardinality(Fetches) = 1
                            /\ \A h \in Fetches :
                                  /\ trace[h].key = e.key
                                  /\ trace[h].req = Request(AtPage(inv, e.page, perPage))
                /\ e.ev = "fetch" =>
                      /\ j > 2 /\ trace[j - 2].ev = "cacheGet"
                      /\ trace[j - 2].res # "hit" /\ trace[j - 2].key = e.key
                      /\ \A h \in (j + 1)..Len(trace) :
                            PrintedBy(j, h) =>
                               \E g \in (j + 1)..(h - 1) :
                                  trace[g].ev = "cacheSet" /\ trace[g].key = e.key
                /\ e.ev = "cacheSet" =>
                      j > 1 /\ trace[j - 1].ev = "fetch" /\ trace[j - 1].key = e.key
                /\ e.ev \in {"table", "empty"} =>
                      \E g \in 1..(j - 1) :
                         /\ PrintedBy(g, j)
                         /\ \/ trace[g].ev = "cacheGet" /\ trace[g].res = "hit"
                            \/ trace[g].ev = "cacheSet"
                         /\ trace[g].page = e.page /\ trace[g].n = e.n)
    /\ [][\A e \in NewEvents :
             (e.ev = "cacheSet" /\ e.res = "stored")
                => /\ e.key \in DOMAIN store'
                   /\ store'[e.key] = [data |-> loaded', ts |-> now]
                   /\ loaded'.req = Request(AtPage(inv, page, perPage))
                   /\ e.key = QueryKey(AtPage(inv, page, perPage))]_vars

\* page 1 came from the cache with no request, page 2 was requested, stored and printed
C20_Witness ==
    /\ Count("cacheGet") = 2 /\ Count("fetch") = 1 /\ Count("cacheSet") = 1
    /\ Count("table") = 2
    /\ FirstOf("cacheGet").res = "hit" /\ FirstOf("fetch").page = Num(2)
    /\ KeyOfPage(2) \in DOMAIN store /\ store[KeyOfPage(2)].data = loaded


(***************************************************************************)
(* Page loop: one request at a time, no prefetching                        *)
(***************************************************************************)
\* requests sent and not yet answered
InFlight == Count("fetch") - Count("cacheSet") - Count("error")

\* the request at position j of the trace was sent for the first page asked
\* for, before any answer, or for the page after one that was printed, offered
\* and accepted
SentInTurn(j) ==
    \/ /\ trace[j].page = StartPageOf(inv)
       /\ \A a \in 1..(j - 1) : trace[a].ev # "answer"
    \/ \E r \in 1..(j - 1), q \in 1..(j - 1), a \in 1..(j - 1) :
          /\ r < q /\ q < a
          /\ trace[r].ev = "pageInfo" /\ trace[r].page = trace[a].page
          /\ trace[q].ev = "prompt" /\ trace[q].page = trace[a].page
          /\ trace[a].ev = "answer" /\ trace[a].res = "yes"
          /\ trace[j].page = Increment(trace[a].page)
          /\ \A b \in (a + 1)..(j - 1) : trace[b].ev \in {"cacheGet", "spinner"}

\* C21: at most one request is in flight, and one is exactly while the handler
\* awaits it; every request is sent for the start page before any answer or for
\* the page after one that was printed, offered and accepted; while the prompt
\* is pending no request is in flight and the prompt is the last thing that
\* happened, and in the whole run the event after a prompt is the answer.
C21_OneFetchNoPrefetch ==
    /\ InFlight \in {0, 1}
    /\ InFlight = 1 <=> pc = "fetching"
    /\ \A j \in 1..Len(trace) : trace[j].ev = "fetch" => SentInTurn(j)
    /\ pc = "prompt" => (InFlight = 0 /\ trace[Len(trace)].ev = "prompt")
    /\ \A j \in 1..(Len(trace) - 1) : trace[j].ev = "prompt" => trace[j + 1].ev = "answer"

\* the prompt after the second page, both pages fetched, is pending
C21_Witness ==
    /\ pc = "prompt" /\ Count("fetch") = 2 /\ Count("prompt") = 2
    /\ InFlight = 0 /\ page = Num(2)


(***************************************************************************)
(* Page loop: the page number and the page size                            *)
(***************************************************************************)
\* a positive integer
Positive(p) == p.t = "number" /\ p.v >= 1

\* C22: once the options are parsed, the page size used for the key, the
\* request and hasMore is a positive integer of at most 100 and the page number
\* is a positive integer, whatever --page and --limit say.
C22_PaginationWellFormed ==
    pc \notin {"start", "exited"} =>
        /\ Positive(perPage) /\ perPage.v <= 100
        /\ Positive(page)

\* what holds of the code: the page size is never above 100, and both numbers
\* are positive integers when --page and --limit are positive decimal numbers
WellFormedForPositiveOptions ==
    pc \notin {"start", "exited"} =>
        /\ perPage.t = "number" => perPage.v <= 100
        /\ (Positive(ParseInt(OptPage(inv))) /\ Positive(ParseInt(OptLimit(inv))))
              => (Positive(perPage) /\ Positive(page))

\* --limit 0: a request with per_page 0 is in flight
ZeroPageSizeRequested ==
    /\ pc = "fetching" /\ perPage = Num(0)
    /\ trace[Len(trace)].ev = "fetch" /\ trace[Len(trace)].req.per_page = Num(0)

\* --page abc --all-pages: after yes the page number is still NaN, the key is
\* the one just stored and the same page is served again and offered again
NaNPageServedAgain ==
    /\ page = NaN /\ pc = "prompt" /\ Count("prompt") = 2 /\ Count("fetch") = 1
    /\ \E j \in 1..Len(trace) :
          trace[j].ev = "cacheGet" /\ trace[j].res = "hit" /\ trace[j].page = NaN

\* --page abc: the page number is NaN in the key looked up
NaNPageLookedUp ==
    /\ pc = "fetching" /\ page = NaN
    /\ \E j \in 1..Len(trace) : trace[j].ev = "cacheGet" /\ trace[j].page = NaN


(***************************************************************************)
(* Page loop: a last page of exactly perPage items                         *)
(***************************************************************************)
\* the commands on plain listing endpoints, which report no total
ListCommands == {"repo list", "pr list", "issue list"}

\* position j of the trace is the end of a page load: a stored response or a
\* cache hit
IsLoad(j) ==
    \/ trace[j].ev = "cacheSet"
    \/ trace[j].ev = "cacheGet" /\ trace[j].res = "hit"

\* C23: for repo list, pr list and issue list with --all-pages, a printed page
\* of exactly perPage items is followed by the prompt, whether or not it is
\* the last page the provider has; and when a page load returns no item, the
\* command prints the "No ..." line and is done: after that load there is no
\* prompt, no request and no table.
C23_FullLastPagePromptsThenEmptyEnds ==
    (inv.q.cmd \in ListCommands /\ inv.allPages /\ pc \notin {"start", "exited"}) =>
        /\ \A j \in 1..Len(trace) :
              (trace[j].ev = "pageInfo" /\ StrictEquals(Num(trace[j].n), perPage))
                 => (j < Len(trace) /\ trace[j + 1].ev = "prompt"
                                   /\ trace[j + 1].page = trace[j].page)
        /\ \A j \in 1..Len(trace) :
              (IsLoad(j) /\ trace[j].n = 0)
                 => /\ pc = "done"
                    /\ trace[Len(trace)].ev = "empty"
                    /\ \A h \in (j + 1)..Len(trace) :
                          trace[h].ev \in {"spinnerStop", "empty"}

\* repo list: page 1 came with exactly perPage items and was offered, the
\* operator accepted, page 2 came empty and the command is done
C23_Witness ==
    /\ inv.q.cmd = "repo list" /\ inv.allPages /\ pc = "done"
    /\ Positive(perPage)
    /\ \E j \in 1..Len(trace) :
          trace[j].ev = "pageInfo" /\ trace[j].page = Num(1) /\ trace[j].n = perPage.v
    /\ \E j \in 1..Len(trace) : trace[j].ev = "answer" /\ trace[j].res = "yes"
    /\ \E j \in 1..Len(trace) :
          trace[j].ev = "cacheSet" /\ trace[j].page = Num(2) /\ trace[j].n = 0
    /\ Count("prompt") = 1 /\ Count("fetch") = 2
    /\ trace[Len(trace)].ev = "empty"


(***************************************************************************)
(* The same command line run twice against a provider whose result set     *)
(* does not change, over the store the first run leaves behind             *)
(***************************************************************************)
\* the largest result set
MaxItems == 3

\* the result sets a provider may hold for a command: a number of items, of
\* which, on the issues endpoint, at most one is a pull request
Remotes(i) ==
    { [items |-> t, prs |-> ps] :
        t \in 0..MaxItems,
        ps \in {{}} \cup (IF i.q.cmd = "issue list" THEN {{k} : k \in 1..MaxItems} ELSE {}) }

\* the response to the request for page pg of size pp: items (pg - 1) * pp + 1
\* to pg * pp of the result set, the pull requests among them, and the size of
\* the result set as total_count (search repos)
RemotePage(i, pg, pp, rem) ==
    LET first == (pg.v - 1) * pp.v + 1
        last == IF pg.v * pp.v < rem.items THEN pg.v * pp.v ELSE rem.items
    IN  [n |-> IF last < first THEN 0 ELSE last - first + 1,
         prs |-> Cardinality(rem.prs \cap (first..last)),
         total |-> Num(IF i.q.cmd = "search repos" THEN rem.items ELSE 0)]

\* the command line is run again, d ms after the first run ended: a new
\* process over the same store
InvokeAgain(d) ==
    /\ pc = "done"
    /\ earlier = <<>>
    /\ earlier' = trace
    /\ trace' = <<>>
    /\ pc' = "start"
    /\ page' = Undefined
    /\ perPage' = Undefined
    /\ loaded' = NoPage
    /\ now' = now + d
    /\ err' = [isError |-> FALSE]
    /\ msg' = [done |-> FALSE, val |-> <<>>]
    /\ UNCHANGED <<inv, remote, store, ret, keyVars, raceVars>>

\* the first run finds the store empty, or holding its first page as a run of
\* the same command line has just stored it, or, for issue list --label x,
\* holding the first page that issue list --assignee x has just stored under
\* its key
InitRuns ==
    /\ KeyIdle
    /\ ErrIdle
    /\ RaceIdle
    /\ inv \in { i \in Invocations :
                   /\ i.authed /\ (i.q.cmd = "repo list" => IsPresent(i.q.username))
                   /\ i.limitOpt = Str(<<"2">>)
                   /\ i.pageOpt \in {Undefined, Str(<<"2">>)} }
    /\ remote \in { r \in Remotes(inv) : r.prs \subseteq 1..r.items }
    /\ pc = "start"
    /\ page = Undefined
    /\ perPage = Undefined
    /\ loaded = NoPage
    /\ trace = <<>>
    /\ earlier = <<>>
    /\ now = 0
    /\ ret = NoCall
    /\ store \in {StoreClear} \cup
          (LET at == AtPage(inv, StartPageOf(inv), PerPageOf(inv))
               r == RemotePage(inv, StartPageOf(inv), PerPageOf(inv), remote)
           IN  { cacheSet(StoreClear, 0, QueryKey(at),
                          PageData(r.n - r.prs, r.total, Request(at)), "none").store }) \cup
          (IF inv.q.cmd # "issue list" THEN {}
           ELSE LET other == [inv EXCEPT !.q.label = Undefined, !.q.assignee = Str(StrX)]
                    at == AtPage(other, StartPageOf(other), PerPageOf(other))
                IN  { cacheSet(StoreClear, 0, QueryKey(at), PageData(n, Num(0), Request(at)),
                               "none").store : n \in 1..2 })

\* the first run meets no store failure; in the second run any store call may
\* fail and the store may be cleared while the prompt is pending
NextRuns ==
    \/ \E f \in {"none", "get"} : (f = "none" \/ earlier # <<>>) /\ Invoke(f)
    \/ \E f \in {"none", "set"} :
          /\ f = "none" \/ earlier # <<>>
          /\ FetchReturns(RemotePage(inv, page, perPage, remote), f)
    \/ \E e \in {x \in FetchErrors : x.status = Num(401)} : FetchFails(e)
    \/ \E more \in BOOLEAN, f \in {"none", "get"} :
          (f = "none" \/ earlier # <<>>) /\ Answer(more, f)
    \/ \E d \in {TTL_MS, TTL_MS + 1} : InvokeAgain(d)
    \/ pc = "prompt" /\ earlier # <<>> /\ store # StoreClear /\ CacheClear("none")

SpecRuns == InitRuns /\ [][NextRuns]_vars


(***************************************************************************)
(* Two runs: what the cache changes                                        *)
(***************************************************************************)
\* what a run showed the operator and was answered, in order: titles, tables,
\* page lines, "No ..." lines, prompts and answers, each with its page number
\* and its number of items
Output(tr) ==
    LET Visible(e) == e.ev \in {"title", "table", "pageInfo", "empty", "prompt", "answer"}
    IN  SelectSeq(tr, Visible)

\* the operator's answers in a run, in order
Answers(tr) ==
    LET IsAnswer(e) == e.ev = "answer"
        Res(e) == e.res
        given == SelectSeq(tr, IsAnswer)
    IN  [j \in 1..Len(given) |-> given[j].res]

\* a is the beginning of b
IsPrefix(a, b) == Len(a) <= Len(b) /\ SubSeq(b, 1, Len(a)) = a

\* no request of the run failed
NoFailure(tr) == \A j \in 1..Len(tr) : tr[j].ev # "error"

\* both runs are over, no request failed, and the operator gave the same
\* answers as far as each run asked
BothDoneSameAnswers ==
    /\ earlier # <<>> /\ pc = "done"
    /\ NoFailure(earlier) /\ NoFailure(trace)
    /\ IsPrefix(Answers(earlier), Answers(trace)) \/ IsPrefix(Answers(trace), Answers(earlier))

\* C24: when the same command line is run twice against the same result set
\* with the same answers, the first time with a working store and the second
\* time with store calls that may fail, entries that may have expired and a
\* store that may be cleared while a prompt is pending, both runs show the
\* same titles, tables, page lines and prompts in the same order.
C24_CacheNotADependency ==
    BothDoneSameAnswers => Output(earlier) = Output(trace)

\* every page a run was served from the store is the page the provider holds:
\* no entry of another command was read under this command's key
ServedOwnPages(tr) ==
    \A j \in 1..Len(tr) :
        (tr[j].ev = "cacheGet" /\ tr[j].res = "hit") =>
            LET r == RemotePage(inv, tr[j].page, PerPageOf(inv), remote)
            IN  tr[j].n = r.n - r.prs

\* what holds of the code: the same, when the first run found no entry that
\* another command had stored under its key
SameOutputUnderOwnKey ==
    (BothDoneSameAnswers /\ ServedOwnPages(earlier)) => Output(earlier) = Output(trace)

\* the second run found every read failing and every write failing and showed
\* two pages, as the first run did
BrokenStoreSameOutput ==
    /\ BothDoneSameAnswers /\ ServedOwnPages(earlier)
    /\ Output(earlier) = Output(trace)
    /\ Count("table") = 2
    /\ \A j \in 1..Len(trace) : trace[j].ev \in {"cacheGet", "cacheSet"} => trace[j].res = "error"

\* issue list --label x: the first run showed the page stored by issue list
\* --assignee x, the second run, after the entry expired, the page of label x
OtherQueryPageShown ==
    /\ BothDoneSameAnswers /\ ~ServedOwnPages(earlier)
    /\ inv.q.cmd = "issue list"
    /\ Output(earlier) # Output(trace)


(***************************************************************************)
(* Two runs: a failed request                                              *)
(***************************************************************************)
\* C25: when a run has ended with a failed request for page N, it has made no
\* cacheSet for page N and the store holds under page N's key nothing written
\* during that run; and when the same command line is run again after a run
\* that failed at page N, its cacheGet for page N is no hit and is followed
\* by the request for page N.
C25_FailedFetchNotCached ==
    /\ (pc = "done" /\ ~NoFailure(trace)) =>
          LET k == QueryKey(AtPage(inv, page, perPage))
          IN  /\ trace[Len(trace)].ev = "error" /\ trace[Len(trace)].page = page
              /\ \A j \in 1..Len(trace) : trace[j].ev = "cacheSet" => trace[j].page # page
              /\ k \in DOMAIN store => store[k].ts < now
    /\ (earlier # <<>> /\ ~NoFailure(earlier)) =>
          \A j \in 1..Len(trace) :
              (trace[j].ev = "cacheGet" /\ trace[j].page = earlier[Len(earlier)].page)
                 => /\ trace[j].res # "hit"
                    /\ Len(trace) >= j + 2
                    /\ trace[j + 2].ev = "fetch" /\ trace[j + 2].page = trace[j].page

\* the first run showed page 1, was told yes and failed at page 2; the second
\* run is served page 1 from the store, is told yes, misses page 2 and has
\* sent the request for it
C25_Witness ==
    /\ earlier # <<>> /\ ~NoFailure(earlier) /\ earlier[Len(earlier)].page = Num(2)
    /\ pc = "fetching" /\ page = Num(2)
    /\ Count("fetch") = 1
    /\ \E j \in 1..Len(trace) :
          trace[j].ev = "cacheGet" /\ trace[j].page = Num(1) /\ trace[j].res = "hit"
    /\ \E j \in 1..Len(trace) :
          trace[j].ev = "cacheGet" /\ trace[j].page = Num(2) /\ trace[j].res = "absent"


(***************************************************************************)
(* Two runs: stopping while the provider has more                          *)
(***************************************************************************)
\* the run ended by itself after a page, not on a negative answer or a failure
StoppedByItself ==
    /\ pc = "done"
    /\ trace[Len(trace)].ev \in {"pageInfo", "empty"}

\* the result set has items after the last one of the current page
MoreAtProvider == remote.items > page.v * perPage.v

\* C26: with --all-pages no command stops by itself after a page while the
\* provider holds items after that page.
C26_NeverStopsWhileMoreRemain ==
    (inv.allPages /\ StoppedByItself) => ~MoreAtProvider

\* what holds of the code: the same for repo list, pr list and search repos,
\* and for issue list when the result set holds no pull request and the page
\* was not served from an entry stored by another command
NeverStopsEarlyWithoutPullRequests ==
    (/\ inv.allPages /\ StoppedByItself
     /\ remote.prs = {}
     /\ ServedOwnPages(earlier) /\ ServedOwnPages(trace))
        => ~MoreAtProvider

\* issue list --all-pages --limit 2, empty store, three items of which the
\* first is a pull request: page 1 is printed with one issue and the command
\* ends with no prompt
PullRequestEndsListing ==
    /\ inv.q.cmd = "issue list" /\ inv.allPages /\ earlier = <<>>
    /\ remote = [items |-> 3, prs |-> {1}]
    /\ StoppedByItself /\ page = Num(1) /\ perPage = Num(2)
    /\ Count("cacheSet") = 1 /\ Count("prompt") = 0
    /\ trace[Len(trace)].ev = "pageInfo" /\ trace[Len(trace)].n = 1


(***************************************************************************)
(* Two runs: how many pages a run loads                                    *)
(***************************************************************************)
\* the pages the run has loaded so far, from the store or from the provider
PageLoads == Cardinality({j \in 1..Len(trace) : IsLoad(j)})

\* ceil(a / b) for b >= 1
CeilDiv(a, b) == (a + b - 1) \div b

\* max(1, ceil(T / s) - p + 2) for the result set, page size and start page of
\* the run
LoadBound ==
    LET b == CeilDiv(remote.items, perPage.v) - StartPageOf(inv).v + 2
    IN  IF b > 1 THEN b ELSE 1

\* C27: in a run whose requests all complete, a command that is not done has
\* loaded fewer than max(1, ceil(T / s) - p + 2) pages, so it is done after
\* at most that many page loads whatever the answers; and a command that is
\* done has shown fewer prompts than it has loaded pages.
C27_TerminatesWithinBound ==
    (pc \notin {"start", "exited"} /\ NoFailure(trace)) =>
        /\ PageLoads <= LoadBound
        /\ pc # "done" => PageLoads < LoadBound
        /\ pc = "done" => Prompts < PageLoads

\* the first conjuncts alone: the bound on page loads
LoadsWithinBound ==
    (pc \notin {"start", "exited"} /\ NoFailure(trace)) =>
        /\ PageLoads <= LoadBound
        /\ pc # "done" => PageLoads < LoadBound

\* what holds of the code: when no page is served from an entry stored by
\* another command, the bound on page loads holds, there are fewer prompts
\* than the bound and never more prompts than page loads, and fewer prompts
\* than page loads in a run that ended by itself
WithinBoundUnderOwnKey ==
    (/\ pc \notin {"start", "exited"} /\ NoFailure(trace)
     /\ ServedOwnPages(earlier) /\ ServedOwnPages(trace)) =>
        /\ PageLoads <= LoadBound
        /\ pc # "done" => PageLoads < LoadBound
        /\ Prompts < LoadBound
        /\ Prompts <= PageLoads
        /\ StoppedByItself => Prompts < PageLoads

\* issue list --label x --all-pages --limit 2, no issue labelled x: page 1 is
\* served from the entry of issue list --assignee x, the operator accepts,
\* page 2 is fetched empty: two page loads where the bound is one
OtherQueryPageExceedsBound ==
    /\ inv.q.cmd = "issue list" /\ earlier = <<>> /\ remote.items = 0
    /\ pc = "done" /\ NoFailure(trace)
    /\ LoadBound = 1 /\ PageLoads = 2
    /\ trace[Len(trace)].ev = "empty"

\* a full first page, then the answer no: one page load and one prompt
DeclinedAfterOneLoad ==
    /\ earlier = <<>> /\ pc = "done" /\ NoFailure(trace)
    /\ trace[Len(trace)].ev = "answer" /\ trace[Len(trace)].res = "no"
    /\ PageLoads = 1 /\ Prompts = 1
    /\ \A j \in 1..Len(trace) : trace[j].ev = "cacheGet" => trace[j].res = "absent"


(***************************************************************************)
(* Two runs: reading an entry does not extend its life                     *)
(***************************************************************************)
\* this step was served a page from the store
HitNow == \E e \in NewEvents : e.ev = "cacheGet" /\ e.res = "hit"

\* C28: a step in which cacheGet returns a stored page leaves the store as it
\* was, timestamps included, and makes no cacheSet; every entry carries the
\* time of the cacheSet that wrote it; and a run started more than TTL_MS after
\* the entries were written gets no hit on them, whether or not the run
\* before it read them.
C28_HitLeavesStoreUnchanged ==
    /\ [][HitNow => (store' = store /\ \A e \in NewEvents : e.ev # "cacheSet")]_vars
    /\ [](\A k \in DOMAIN store :
            \/ store[k].ts = 0
            \/ /\ earlier # <<>> /\ store[k].ts = now
               /\ \E j \in 1..Len(trace) :
                     trace[j].ev = "cacheSet" /\ trace[j].key = k /\ trace[j].res = "stored")
    /\ [](now > TTL_MS =>
            \A j \in 1..Len(trace) : trace[j].ev = "cacheGet" => trace[j].res # "hit")

\* the first run was served page 1 from an entry written at time 0; the
\* second run, TTL_MS + 1 later, finds the entry expired and has sent the
\* request
C28_Witness ==
    /\ earlier # <<>> /\ now = TTL_MS + 1
    /\ \E j \in 1..Len(earlier) :
          earlier[j].ev = "cacheGet" /\ earlier[j].res = "hit" /\ earlier[j].page = Num(1)
    /\ pc = "fetching" /\ page = Num(1)
    /\ trace[1].ev = "title" /\ trace[2].ev = "cacheGet" /\ trace[2].res = "expired"

\* the second run, exactly TTL_MS after the write, is served the same entry
ServedAgainAtTtl ==
    /\ earlier # <<>> /\ now = TTL_MS
    /\ \E j \in 1..Len(earlier) :
          earlier[j].ev = "cacheGet" /\ earlier[j].res = "hit" /\ earlier[j].page = Num(1)
    /\ \E j \in 1..Len(trace) :
          trace[j].ev = "cacheGet" /\ trace[j].res = "hit" /\ trace[j].page = Num(1)


(***************************************************************************)
(* Two runs: a run served from the store                                   *)
(***************************************************************************)
\* what a run printed for page pg, in order: title, table, page line,
\* "No ..." line and prompt
PageOutput(tr, pg) ==
    LET OfPage(e) == /\ e.ev \in {"title", "table", "pageInfo", "empty", "prompt"}
                     /\ e.page = pg
    IN  SelectSeq(tr, OfPage)

\* the pages the first run fetched and stored
StoredEarlier ==
    { earlier[j].page : j \in { h \in 1..Len(earlier) :
                                   earlier[h].ev = "cacheSet" /\ earlier[h].res = "stored" } }

\* the second run started within TTL_MS of the first run's writes, no store
\* call of it failed and the store was not cleared
SecondRunInTime ==
    /\ earlier # <<>> /\ now <= TTL_MS
    /\ ret.op # "cacheClear"
    /\ \A j \in 1..Len(trace) : trace[j].res # "error"

\* C29: when the same command line is run again within TTL_MS of the writes
\* of the first run, with a working store, then for every page the first run
\* fetched and stored the second run sends no request, its cacheGet is a hit,
\* and once it has loaded the page it has printed for it exactly what the
\* first run printed: the same table and page line with the same number of
\* items, or the same "No ..." line, and the prompt if and only if the first
\* run prompted.
C29_CacheServedRunSameOutcome ==
    SecondRunInTime =>
        \A pg \in StoredEarlier :
            \A j \in 1..Len(trace) :
                /\ (trace[j].ev = "fetch") => trace[j].page # pg
                /\ (trace[j].ev = "cacheGet" /\ trace[j].page = pg)
                      => /\ trace[j].res = "hit"
                         /\ PageOutput(trace, pg) = PageOutput(earlier, pg)

\* the first run fetched and stored pages 1 and 2; the second run, TTL_MS
\* later, showed both without a request
C29_Witness ==
    /\ SecondRunInTime /\ now = TTL_MS /\ pc = "done"
    /\ StoredEarlier = {Num(1), Num(2)}
    /\ Count("fetch") = 0 /\ Count("table") = 2 /\ Count("prompt") = 1
    /\ Output(trace) = Output(earlier)


(***************************************************************************)
(* Page loop: pages in order, and nothing after the end                    *)
(***************************************************************************)
\* the page loads of the run, in order
LoadsInOrder ==
    LET Loads(e) == e.ev = "cacheSet" \/ (e.ev = "cacheGet" /\ e.res = "hit")
    IN  SelectSeq(trace, Loads)

\* the cache lookups of the run, in order
LookupsInOrder ==
    LET Lookup(e) == e.ev = "cacheGet"
    IN  SelectSeq(trace, Lookup)

\* C30: for a run started at a page number, the j-th cache lookup is for page
\* start + j - 1, every page load and every request is for the page of the
\* lookup before it, and no page is loaded twice; a command that is done
\* takes no further step, and it became done after a page that was short,
\* empty or shown without --all-pages, after the answer no, or after a failed
\* request.
C30_DoneAbsorbingPagesConsecutive ==
    /\ [](StartPageOf(inv).t = "number" =>
            /\ \A j \in 1..Len(LookupsInOrder) :
                  LookupsInOrder[j].page = Num(StartPageOf(inv).v + j - 1)
            /\ \A j \in 1..Len(LoadsInOrder), h \in 1..Len(LoadsInOrder) :
                  j < h => LoadsInOrder[j].page.v < LoadsInOrder[h].page.v
            /\ \A j \in 1..Len(trace) :
                  trace[j].ev \in {"fetch", "cacheSet", "table", "pageInfo", "empty", "prompt"}
                     => \E h \in 1..(j - 1) :
                           /\ trace[h].ev = "cacheGet" /\ trace[h].page = trace[j].page
                           /\ \A g \in (h + 1)..(j - 1) : trace[g].ev # "cacheGet")
    /\ [][pc \notin {"done", "exited"}]_vars
    /\ [](pc = "done" =>
            LET last == trace[Len(trace)]
            IN  \/ last.ev = "empty"
                \/ last.ev = "error"
                \/ last.ev = "answer" /\ last.res = "no"
                \/ /\ last.ev = "pageInfo"
                   /\ ~inv.allPages \/ ~HasMore(inv.q.cmd, loaded.n, page, perPage, loaded.total))

\* --page 2 --all-pages: pages 2 and 3 were loaded, page 3 was short, and the
\* command is done
C30_Witness ==
    /\ StartPageOf(inv) = Num(2) /\ inv.allPages /\ pc = "done"
    /\ Len(LoadsInOrder) = 2
    /\ LoadsInOrder[1].page = Num(2) /\ LoadsInOrder[2].page = Num(3)
    /\ trace[Len(trace)].ev = "pageInfo"

====
